---- MODULE Spec2Model ----
(***************************************************************************)
(* A model of the neuralstark-mini RAG backend (src/backend):              *)
(*   - RAGService.get_response, the request pipeline with its retry loop   *)
(*   - RerankerOptimized / Reranker, HybridRetriever (pure ranking stages) *)
(*   - EmbeddingCache / QueryCache (LRU caches with a lock and a TTL)      *)
(*   - VectorStoreService (the collection, the BM25 index, its caches)     *)
(*   - the /settings and /chat handlers of server.py                       *)
(*   - process_documents with the document cache, and the file watcher     *)
(* Scores are floats in the source.  They are modelled as exact integers   *)
(* in fixed units (ScoreUnit for reranker scores, RRFScale for fused       *)
(* scores), so that sums, comparisons and percentiles are exact.           *)
(***************************************************************************)
EXTENDS Integers, Sequences, FiniteSets, TLC

VARIABLES
    \* ---- RAGService.get_response (one request) ----
    reranker,           \* self.reranker as chosen by RAGService.__init__
    request,            \* what the query makes the enhancer and extractor do
    pc,                 \* position in get_response
    attempt,            \* the loop variable of "for attempt in range(max_retries)"
    unique_docs,        \* deduplicated candidates of this attempt
    prefiltered_docs,   \* candidates handed to the reranker
    reranked_metadata,  \* output of self.reranker.rerank
    final_metadata,     \* output of thresholding, cut to final_results_count
    err,                \* the exception caught by "except Exception as e"
    result,             \* what get_response returned or raised
    llm_calls,          \* number of client.chat.completions.create calls made
    sleeps              \* the asyncio.sleep durations, in order

VARIABLES
    \* ---- one call of a ranking stage (search_sparse, reciprocal_rank_fusion,
    \*      rerank, or the tail of get_response from rerank to the sources) ----
    fn,                 \* the function called, "" before the call
    args,               \* its arguments and the state of the object it reads
    ret                 \* what it returned

rag_vars == <<reranker, request, pc, attempt, unique_docs, prefiltered_docs,
              reranked_metadata, final_metadata, err, result, llm_calls, sleeps>>

VARIABLES
    \* ---- one cache object (cache_manager.py) ----
    cache_class,        \* "EmbeddingCache" or "QueryCache"
    max_size,
    ttl_seconds,
    cache,              \* the OrderedDict, oldest entry first
    timestamps,         \* QueryCache: key -> time of the put
    hits,
    misses,
    now,                \* time.time()
    last_call,          \* the last call made on the cache and what it returned
    uses                \* the cached keys, least recently used first

VARIABLES
    \* ---- threads calling the cache concurrently ----
    lock,               \* self.lock: the thread holding it, or NoThread
    thread_pc,          \* per thread: the statement it is at
    thread_call,        \* per thread: the call it is in
    oldest_key          \* per thread: the local oldest_key of put

VARIABLES
    \* ---- one VectorStoreService (vector_store.py) ----
    collection,         \* the documents of the Chroma collection, in insertion order
    hybrid_retriever,   \* self.hybrid_retriever: bm25_index, corpus_texts
    emb_cache,          \* self.embedding_cache.cache
    emb_hits,
    emb_misses,
    store_call          \* the last call made on the service and what it returned

VARIABLES
    \* ---- the API layer (server.py): /settings and /chat ----
    settings_doc,       \* the document {"id": "main"} of db.settings, or NoDocument
    rag_api_key,        \* rag_service.api_key
    chat_messages,      \* the documents of db.chat_messages, in insertion order
    http                \* the last request handled and its response

VARIABLES
    \* ---- document indexing (server.py, document_cache.py) ----
    files,              \* the files directory: file -> version of its content, 0 if absent
    doc_cache,          \* db.document_cache: file -> its entry
    store_chunks,       \* vector_service: number of chunks in the collection
    run,                \* the last process_documents run
    pending_reindex,    \* file_handler._pending_reindex
    loop_pc,            \* position of check_reindex_pending ("down" before startup)
    events,             \* number of file events the watcher has delivered
    covered             \* value of events when the last run of the loop started

rank_vars == <<fn, args, ret>>

cache_vars == <<cache_class, max_size, ttl_seconds, cache, timestamps, hits, misses,
                now, last_call, uses>>

conc_vars == <<lock, thread_pc, thread_call, oldest_key>>

store_vars == <<collection, hybrid_retriever, emb_cache, emb_hits, emb_misses, store_call>>

server_vars == <<settings_doc, rag_api_key, chat_messages, http>>

index_vars == <<files, doc_cache, store_chunks, run, pending_reindex, loop_pc,
                events, covered>>

vars == <<rag_vars, rank_vars, cache_vars, conc_vars, store_vars, server_vars,
          index_vars>>

not_rag_vars == <<rank_vars, cache_vars, conc_vars, store_vars, server_vars, index_vars>>

not_rank_vars == <<rag_vars, cache_vars, conc_vars, store_vars, server_vars, index_vars>>

not_cache_vars == <<rag_vars, rank_vars, conc_vars, store_vars, server_vars, index_vars>>

\* a thread's step touches the cache and the threads
not_conc_vars == <<rag_vars, rank_vars, store_vars, server_vars, index_vars>>

\* a call on the service touches the service and its query cache
not_store_vars == <<rag_vars, rank_vars, conc_vars, server_vars, index_vars>>

not_server_vars == <<rag_vars, rank_vars, cache_vars, conc_vars, store_vars, index_vars>>

not_index_vars == <<rag_vars, rank_vars, cache_vars, conc_vars, store_vars, server_vars>>

----------------------------------------------------------------------------
(* Bounds of the model *)

\* number of chunks the vector store can return to one request
PoolSize == 4

----------------------------------------------------------------------------
(* Generic helpers *)

Min(a, b) == IF a < b THEN a ELSE b

Max(a, b) == IF a > b THEN a ELSE b

Range(s) == {s[i] : i \in 1..Len(s)}

\* Python's s[:n] for n >= 0
Take(s, n) == SubSeq(s, 1, Min(n, Len(s)))

RECURSIVE SortAscending(_)
\* the values of a sequence in non-decreasing order (np.sort)
SortAscending(s) ==
    IF s = <<>> THEN <<>>
    ELSE LET least == CHOOSE i \in 1..Len(s) : \A j \in 1..Len(s) : s[i] <= s[j]
             rest  == [k \in 1..(Len(s) - 1) |-> IF k < least THEN s[k] ELSE s[k + 1]]
         IN  <<s[least]>> \o SortAscending(rest)

RECURSIVE DescendingOrders(_, _)
\* np.argsort(scores)[::-1] restricted to the index set S: every order of S by
\* non-increasing score.  np.argsort's default kind is not stable, so the order
\* among equal scores is any order.
DescendingOrders(scores, S) ==
    IF S = {} THEN {<<>>}
    ELSE LET top == {i \in S : \A j \in S : scores[j] <= scores[i]}
         IN  UNION {{<<i>> \o t : t \in DescendingOrders(scores, S \ {i})} : i \in top}

\* np.argsort(scores) without the reversal
ArgsortDescending_notReversed(scores) ==
    {[i \in 1..Len(o) |-> o[Len(o) + 1 - i]] : o \in DescendingOrders(scores, 1..Len(scores))}

ArgsortDescending(scores) == DescendingOrders(scores, 1..Len(scores))

----------------------------------------------------------------------------
(* Chunks.  A chunk is a document text with the metadata retrieval attached  *)
(* to it.  relevance_score and bm25_score are in hundredths, rrf_score in    *)
(* ten-thousandths, cross_encoder (the model's score for the query and this  *)
(* chunk) in ScoreUnit-ths.  entities are the query entities the text        *)
(* contains as substrings.                                                   *)

Hundred == 10 * 10

ScoreUnit == 3 * 4

ChunkTable == <<
    [prefix |-> "p1", relevance_score |-> 80, bm25_score |-> 0, rrf_score |-> 0,
     cross_encoder |-> 3 * ScoreUnit, entities |-> {"e1"}],
    [prefix |-> "p2", relevance_score |-> 10, bm25_score |-> 0, rrf_score |-> 0,
     cross_encoder |-> -(4 * ScoreUnit), entities |-> {}],
    [prefix |-> "p1", relevance_score |-> 30, bm25_score |-> 250, rrf_score |-> 328,
     cross_encoder |-> -(9 * ScoreUnit), entities |-> {"e1", "e2"}],
    [prefix |-> "p3", relevance_score |-> 5, bm25_score |-> 120, rrf_score |-> 161,
     cross_encoder |-> -(4 * ScoreUnit), entities |-> {}] >>

Chunk(i) == [text |-> i] @@ ChunkTable[((i - 1) % Len(ChunkTable)) + 1]

RECURSIVE ChunksOf(_, _)
\* the chunks with indices in S from index i on, in index order
ChunksOf(S, i) ==
    IF i > PoolSize THEN <<>>
    ELSE (IF i \in S THEN <<Chunk(i)>> ELSE <<>>) \o ChunksOf(S, i + 1)

\* result lists a search can return
ResultLists == {ChunksOf(S, 1) : S \in SUBSET (1..PoolSize)}

----------------------------------------------------------------------------
(* EntityExtractor *)

\* what extract_entities can give for a query: one deduplicated list per
\* category that found something ("e1" is found under two categories in the
\* third one, as a postal code is also a number)
ExtractedEntities ==
    {<<>>, << <<"e1", "e2">> >>, << <<"e1">>, <<"e1", "e2">> >>, << <<"e3">> >>}

RECURSIVE Flatten(_)
\* all_query_entities: the lists of every category, one after the other
Flatten(lists) ==
    IF lists = <<>> THEN <<>> ELSE Head(lists) \o Flatten(Tail(lists))

TotalEntities_distinct(all_query_entities) ==
    Cardinality({all_query_entities[i] : i \in 1..Len(all_query_entities)})

\* len(all_query_entities)
TotalEntities(all_query_entities) == Len(all_query_entities)

\* number of entities of the flattened query entity list found in the text
EntityMatches(query_entities, c) ==
    Cardinality({i \in 1..Len(query_entities) : query_entities[i] \in c.entities})

\* a boost without the cap min(..., 3.0)
ExactMatchBoost_uncapped(query_entities, c) ==
    LET matches == EntityMatches(query_entities, c)
        total   == Len(query_entities)
        overlap2 == IF total = 0 THEN 0 ELSE (matches * 2 * ScoreUnit) \div total
    IN  overlap2 + (matches * ScoreUnit) \div 2

\* boost added to the cross-encoder score, in ScoreUnit-ths:
\* entity_overlap * 2.0 + min(len(exact_matches) * 0.5, 3.0)
ExactMatchBoost(query_entities, c) ==
    LET matches == EntityMatches(query_entities, c)
        total   == Len(query_entities)
        overlap2 == IF total = 0 THEN 0 ELSE (matches * 2 * ScoreUnit) \div total
    IN  overlap2 + Min((matches * ScoreUnit) \div 2, 3 * ScoreUnit)

\* compute_entity_overlap: the ratio matches / len(all_query_entities) as the
\* fraction num / den; 0.0 is 0 / 1
ComputeEntityOverlap(extracted, c) ==
    LET all_query_entities == Flatten(extracted)
    IN  IF all_query_entities = <<>> THEN [num |-> 0, den |-> 1]
        ELSE [num |-> EntityMatches(all_query_entities, c),
              den |-> TotalEntities(all_query_entities)]

FinalScore(query_entities, c, enable_exact_match_boost) ==
    c.cross_encoder
      + (IF enable_exact_match_boost THEN ExactMatchBoost(query_entities, c) ELSE 0)

----------------------------------------------------------------------------
(* Rerankers.  A call's outcome is [raised, out, logged]: whether it raised  *)
(* to the caller, the list it returned and what it logged on the way ("no    *)
(* model": "Reranker model not available", otherwise the exception of        *)
(* "Error during reranking").  A returned entry is the chunk with the keys   *)
(* rerank adds to its metadata; scored = FALSE when they are absent.         *)

Unscored(c) ==
    [chunk |-> c, scored |-> FALSE, reranker_score |-> 0, camembert_score |-> 0,
     original_rank |-> 0, reranked_position |-> 0]

\* meta.get('reranker_score', 0.0)
RerankerScore(m) == IF m.scored THEN m.reranker_score ELSE 0

\* documents[:top_k], metadata[:top_k]
OriginalOrder(documents, top_k) ==
    LET cut == Take(documents, top_k)
    IN  [i \in 1..Len(cut) |-> Unscored(cut[i])]

\* steps 3 to 5 of rerank for one argsort result
Reranked(query_entities, documents, top_k, boost, order) ==
    LET top == Take(order, top_k)
    IN  [i \in 1..Len(top) |->
            [chunk |-> documents[top[i]], scored |-> TRUE,
             reranker_score |-> FinalScore(query_entities, documents[top[i]], boost),
             camembert_score |-> documents[top[i]].cross_encoder,
             original_rank |-> top[i], reranked_position |-> i]]

\* the body of rerank's try block: [exc, out] for every way it can run.
\* predict can raise; the closing log line reads sorted_indices[top_k-1] and
\* raises IndexError when top_k exceeds the number of documents (documents is
\* not empty here, so RerankerOptimized's "if reranked_docs" guard is true then).
TryRerank(query_entities, documents, top_k, boost) ==
    LET n      == Len(documents)
        scores == [i \in 1..n |-> FinalScore(query_entities, documents[i], boost)]
    IN  {[exc |-> "predict", out |-> <<>>]}
        \cup {IF top_k > n
                THEN [exc |-> "IndexError", out |-> <<>>]
                ELSE [exc |-> "none",
                      out |-> Reranked(query_entities, documents, top_k, boost, order)]
              : order \in ArgsortDescending(scores)}

\* an except block that raises the exception again
RerankExcept_reraise(t, documents, top_k) ==
    IF t.exc = "none" THEN [raised |-> FALSE, out |-> t.out, logged |-> "none"]
    ELSE [raised |-> TRUE, out |-> <<>>, logged |-> t.exc]

\* "except Exception as e: return documents[:top_k], metadata[:top_k]"
RerankExcept(t, documents, top_k) ==
    IF t.exc = "none" THEN [raised |-> FALSE, out |-> t.out, logged |-> "none"]
    ELSE [raised |-> FALSE, out |-> OriginalOrder(documents, top_k), logged |-> t.exc]

\* RerankerOptimized.rerank(query, documents, metadata, top_k, enable_exact_match_boost)
RerankerOptimized_rerank(model_loaded, query_entities, documents, top_k, boost) ==
    IF ~model_loaded
        THEN {[raised |-> FALSE, out |-> OriginalOrder(documents, top_k),
               logged |-> "no model"]}
    ELSE IF documents = <<>>
        THEN {[raised |-> FALSE, out |-> <<>>, logged |-> "none"]}
    ELSE {RerankExcept(t, documents, top_k) :
            t \in TryRerank(query_entities, documents, top_k, boost)}

\* Reranker.rerank(query, documents, metadata, top_k): the same without boost
Reranker_rerank(model_loaded, query_entities, documents, top_k) ==
    IF ~model_loaded
        THEN {[raised |-> FALSE, out |-> OriginalOrder(documents, top_k),
               logged |-> "no model"]}
    ELSE IF documents = <<>>
        THEN {[raised |-> FALSE, out |-> <<>>, logged |-> "none"]}
    ELSE {RerankExcept(t, documents, top_k) :
            t \in TryRerank(query_entities, documents, top_k, FALSE)}

\* np.percentile(scores, percentile) times Hundred (linear interpolation
\* between the two nearest ranks); scores is not empty
PercentileTimes100(scores, percentile) ==
    LET sorted == SortAscending(scores)
        pos    == percentile * (Len(scores) - 1)
        lo     == (pos \div Hundred) + 1
        part   == pos % Hundred
    IN  IF part = 0 THEN Hundred * sorted[lo]
        ELSE Hundred * sorted[lo] + part * (sorted[lo + 1] - sorted[lo])

\* RerankerOptimized.compute_dynamic_threshold, times Hundred
ComputeDynamicThreshold(scores, percentile) ==
    IF scores = <<>> THEN Hundred * (ScoreUnit \div 2)
    ELSE PercentileTimes100(scores, percentile)

\* the threshold filter_by_confidence filters by, times Hundred
ConfidenceThreshold(metadata, min_score100, use_dynamic_threshold) ==
    LET scores == [i \in 1..Len(metadata) |-> RerankerScore(metadata[i])]
    IN  IF use_dynamic_threshold /\ scores # <<>>
            THEN ComputeDynamicThreshold(scores, 20)
            ELSE min_score100

\* RerankerOptimized.filter_by_confidence; min_score100 is min_score times Hundred
FilterByConfidence(metadata, min_score100, use_dynamic_threshold) ==
    LET threshold == ConfidenceThreshold(metadata, min_score100, use_dynamic_threshold)
        Keep(m)   == Hundred * RerankerScore(m) >= threshold
    IN  SelectSeq(metadata, Keep)

----------------------------------------------------------------------------
(* HybridRetriever.  BM25Okapi.get_scores is a library call: its scores are  *)
(* drawn from BM25Scores.  A fused score is a sum of 1/(k + rank); it is     *)
(* kept exact as an integer number of 1/RRFScale(k).                         *)

\* length of the longest dense and of the longest sparse result list fused
MaxDense == 3

MaxSparse == 2

\* size of the largest BM25 corpus
MaxCorpus == 3

BM25Scores == -1..2

\* the retriever's state: nothing indexed, or a corpus (texts 1..n) with its index
Corpora ==
    {[bm25_index |-> FALSE, corpus_texts |-> <<>>]}
        \cup {[bm25_index |-> TRUE, corpus_texts |-> [i \in 1..n |-> i]] :
                n \in 1..MaxCorpus}

PositiveScore_nonNegative(score) == score >= 0

\* "Filter out zero scores": scores[idx] > 0
PositiveScore(score) == score > 0

\* search_sparse: every list it can return (one per order argsort can give);
\* an entry is the document and the bm25_score put into its metadata
SearchSparse(retriever, scores, n_results) ==
    IF ~retriever.bm25_index \/ retriever.corpus_texts = <<>> THEN {<<>>}
    ELSE {LET top_indices == SelectSeq(Take(order, Min(n_results, Len(scores))),
                                       LAMBDA idx : PositiveScore(scores[idx]))
          IN  [i \in 1..Len(top_indices) |->
                  [doc |-> retriever.corpus_texts[top_indices[i]],
                   bm25_score |-> scores[top_indices[i]]]]
          : order \in ArgsortDescending(scores)}

\* documents to fuse: doc |-> the text, key |-> doc[:100].  "A2" is a second
\* text with the first 100 characters of "A".
FusionDocs ==
    {[doc |-> "A", key |-> "a"], [doc |-> "B", key |-> "b"],
     [doc |-> "C", key |-> "c"], [doc |-> "A2", key |-> "a"]}

SeqsUpTo(S, n) == UNION {[1..m -> S] : m \in 0..n}

\* the constants k a fusion is called with (60 is the default and the one used)
RRFConstants == {1, 60}

RECURSIVE RRFScaleTo(_, _)
RRFScaleTo(k, r) == IF r = 0 THEN 1 ELSE (k + r) * RRFScaleTo(k, r - 1)

\* the unit of fused scores is 1/RRFScale(k), with
\* RRFScale(k) = (k + 1) * ... * (k + max(MaxDense, MaxSparse))
RRFScale(k) == RRFScaleTo(k, Max(MaxDense, MaxSparse))

\* "1.0 / (k + rank)" with ranks counted from 0
RRFContribution_fromZero(k, rank) == RRFScale(k) \div (k + rank - 1)

\* "1.0 / (k + rank)", rank from enumerate(..., start=1)
RRFContribution(k, rank) == RRFScale(k) \div (k + rank)

RECURSIVE AddRanking(_, _, _, _, _)
\* one of the two loops of reciprocal_rank_fusion, from rank on.  acc is
\* rrf_scores with doc_to_meta, in the insertion order of the keys.
AddRanking(acc, docs, k, which, rank) ==
    IF rank > Len(docs) THEN acc
    ELSE LET d     == docs[rank]
             known == \E j \in 1..Len(acc) : acc[j].key = d.key
             acc1  == IF known THEN acc
                      ELSE Append(acc, [key |-> d.key, doc |-> d.doc, rrf_score |-> 0,
                                        dense_rank |-> 0, sparse_rank |-> 0])
             j     == CHOOSE i \in 1..Len(acc1) : acc1[i].key = d.key
             e     == [acc1[j] EXCEPT
                          !.rrf_score   = @ + RRFContribution(k, rank),
                          !.dense_rank  = IF which = "dense" THEN rank ELSE @,
                          !.sparse_rank = IF which = "sparse" THEN rank ELSE @]
         IN  AddRanking([acc1 EXCEPT ![j] = e], docs, k, which, rank + 1)

RECURSIVE SortedByScore(_)
\* sorted(rrf_scores.items(), key=score, reverse=True): the sort is stable, so
\* entries of equal score keep their insertion order
SortedByScore(acc) ==
    IF acc = <<>> THEN <<>>
    ELSE LET first == CHOOSE i \in 1..Len(acc) :
                          /\ \A j \in 1..Len(acc) : acc[j].rrf_score <= acc[i].rrf_score
                          /\ \A j \in 1..(i - 1) : acc[j].rrf_score < acc[i].rrf_score
             rest  == [n \in 1..(Len(acc) - 1) |-> IF n < first THEN acc[n] ELSE acc[n + 1]]
         IN  <<acc[first]>> \o SortedByScore(rest)

\* reciprocal_rank_fusion: the documents returned, each with the keys put into
\* its metadata (a rank of 0 stands for an absent dense_rank or sparse_rank)
ReciprocalRankFusion(dense_docs, sparse_docs, k, n_results) ==
    LET dense == AddRanking(<<>>, dense_docs, k, "dense", 1)
        both  == AddRanking(dense, sparse_docs, k, "sparse", 1)
    IN  Take(SortedByScore(both), n_results)

----------------------------------------------------------------------------
(* EmbeddingCache and QueryCache (cache_manager.py).  An OrderedDict is a    *)
(* sequence of [key, value] entries, oldest first.  Strings are sequences of *)
(* tokens, so that an f-string is a concatenation.  The key is the first 16  *)
(* hex digits of the SHA-256 of the formatted content; the digest is taken   *)
(* to be free of collisions, so a key is modelled by the content it hashes.  *)

\* largest max_size a cache is built with
MaxSize == 3

\* the clock runs from 0 to MaxTime seconds
MaxTime == 2

\* largest number of get calls (hits + misses) on one cache
MaxGets == 2

None == "None"

Embeddings == {"v1", "v2"}

QueryResults == {"r1", "r2"}

\* (query, model_name) pairs; the last two format to the same content
EmbeddingParams ==
    {[query |-> <<"a">>, model_name |-> <<"default">>],
     [query |-> <<"b">>, model_name |-> <<"default">>],
     [query |-> <<"c">>, model_name |-> <<"default">>],
     [query |-> <<"d", ":", "m">>, model_name |-> <<"x">>],
     [query |-> <<"d">>, model_name |-> <<"m", ":", "x">>]}

\* (query, n_results, use_hybrid) triples
QueryParams ==
    {[query |-> <<"a">>, n_results |-> 10, use_hybrid |-> TRUE],
     [query |-> <<"a">>, n_results |-> 10, use_hybrid |-> FALSE],
     [query |-> <<"a">>, n_results |-> 2, use_hybrid |-> TRUE]}

\* EmbeddingCache._compute_key: f"{query}:{model_name}"
EmbeddingCache_compute_key(p) == p.query \o <<":">> \o p.model_name

\* QueryCache._compute_key: f"{query}:{n_results}:{use_hybrid}"
QueryCache_compute_key(p) == p.query \o <<":", p.n_results, ":", p.use_hybrid>>

\* the keys of an OrderedDict
Keys(d) == {d[i].key : i \in 1..Len(d)}

\* "key in self.cache"
Contains(d, key) == key \in Keys(d)

\* self.cache[key]
Lookup(d, key) == d[CHOOSE i \in 1..Len(d) : d[i].key = key].value

\* del self.cache[key]
Delete(d, key) == SelectSeq(d, LAMBDA e : e.key # key)

\* self.cache.move_to_end(key)
MoveToEnd(d, key) == Delete(d, key) \o <<[key |-> key, value |-> Lookup(d, key)]>>

\* a store that keeps the value of a key already present
Store_keepsOld(d, key, value) ==
    IF Contains(d, key) THEN d ELSE Append(d, [key |-> key, value |-> value])

\* self.cache[key] = value: a key already present keeps its place
Store(d, key, value) ==
    IF Contains(d, key)
        THEN [i \in 1..Len(d) |-> IF d[i].key = key THEN [d[i] EXCEPT !.value = value]
                                  ELSE d[i]]
        ELSE Append(d, [key |-> key, value |-> value])

\* a put that never evicts
EvictOldest_never(d, size) == d

\* an entry that never expires
IsExpired_never(ts, key, t, ttl) == FALSE

\* "if len(self.cache) >= self.max_size": the entry "next(iter(self.cache))"
\* is deleted; d is not empty, as max_size >= 1
EvictOldest(d, size) == IF Len(d) >= size THEN Tail(d) ELSE d

\* the timestamps dict without a key, and with a key set to a time
WithoutKey(ts, key) == [k \in (DOMAIN ts) \ {key} |-> ts[k]]

WithKey(ts, key, t) == [k \in (DOMAIN ts) \cup {key} |-> IF k = key THEN t ELSE ts[k]]

\* QueryCache._is_expired at time t
IsExpired(ts, key, t, ttl) ==
    IF key \notin DOMAIN ts THEN TRUE ELSE t - ts[key] > ttl

----------------------------------------------------------------------------
(* VectorStoreService (vector_store.py): the collection, the BM25 retriever, *)
(* the embedding cache and the query cache.  The query cache of the service  *)
(* is the cache object of the variables cache, timestamps, hits, misses; the *)
(* embedding cache has its own variables.  A document is a record of         *)
(* FusionDocs; the result of a search is its list of document texts (the     *)
(* metadata list runs in step with it).  The collection's answer to a query  *)
(* and the BM25 scores are fixed per document: the model has one query text. *)

\* largest number of documents in the collection
MaxDocs == 3

TheQuery == <<"a">>

TheModel == <<"manu/bge-m3-custom-fr">>

\* (query, n_results, use_hybrid) of a search
SearchParams ==
    {[query |-> TheQuery, n_results |-> 1, use_hybrid |-> TRUE],
     [query |-> TheQuery, n_results |-> 2, use_hybrid |-> FALSE]}

Doc(text) == CHOOSE d \in FusionDocs : d.doc = text

\* the batches add_documents is called with
Batches == {<<Doc("A"), Doc("B")>>, <<Doc("C")>>}

\* the collections a service can find on disk when it starts
StoredCollections == {<<>>, <<Doc("A"), Doc("B")>>}

\* L2 distance of a document to the query (tenths), and its BM25 score
Distance(d) == CASE d.doc = "A" -> 2 [] d.doc = "A2" -> 2 [] d.doc = "B" -> 5
                 [] OTHER -> 9

Bm25Score(d) == CASE d.doc = "A" -> 2 [] d.doc = "A2" -> 2 [] d.doc = "B" -> 1
                  [] OTHER -> 0

\* HybridRetriever() and index_documents(texts): empty texts change nothing
NewRetriever == [bm25_index |-> FALSE, corpus_texts |-> <<>>]

IndexDocuments(r, texts) ==
    IF texts = <<>> THEN r ELSE [bm25_index |-> TRUE, corpus_texts |-> texts]

RECURSIVE NearestFirst(_)
\* collection.query: the documents by increasing distance (ties in the order
\* of the collection); sorting them by relevance_score keeps that order
NearestFirst(docs) ==
    IF docs = <<>> THEN <<>>
    ELSE LET first == CHOOSE i \in 1..Len(docs) :
                          /\ \A j \in 1..Len(docs) : Distance(docs[i]) <= Distance(docs[j])
                          /\ \A j \in 1..(i - 1) : Distance(docs[i]) < Distance(docs[j])
             rest  == [n \in 1..(Len(docs) - 1) |-> IF n < first THEN docs[n] ELSE docs[n + 1]]
         IN  <<docs[first]>> \o NearestFirst(rest)

\* _search_dense without its embedding cache: the n nearest documents
SearchDense(docs, n_results) == Take(NearestFirst(docs), Min(n_results, Len(docs)))

\* the retrieval of search once the query cache has missed and the collection
\* is not empty: every list of documents it can return
Retrieval(docs, r, p) ==
    LET retrieval_count == Min(p.n_results * 2, Len(docs))
        dense_docs      == SearchDense(docs, retrieval_count)
    IN  IF p.use_hybrid /\ r.bm25_index
          THEN {IF sparse = <<>> THEN dense_docs
                ELSE LET fused == ReciprocalRankFusion(
                                      dense_docs,
                                      [i \in 1..Len(sparse) |-> sparse[i].doc],
                                      60, retrieval_count)
                     IN  [i \in 1..Len(fused) |-> Doc(fused[i].doc)]
                : sparse \in SearchSparse(
                      r, [i \in 1..Len(r.corpus_texts) |-> Bm25Score(r.corpus_texts[i])],
                      retrieval_count)}
          ELSE {dense_docs}

Texts(docs) == [i \in 1..Len(docs) |-> docs[i].doc]

\* a query cache that never answers
CacheHit_never(d, ts, key, t, ttl) == FALSE

\* query_cache.get returns an entry: "key in self.cache and not self._is_expired(key)"
CacheHit(d, ts, key, t, ttl) == Contains(d, key) /\ ~IsExpired(ts, key, t, ttl)

NoStoreCall == [op |-> "", params |-> <<>>, returned |-> <<>>, retrieved |-> FALSE]

\* no vector store service has been built
NoStore ==
    /\ collection = <<>>
    /\ hybrid_retriever = NewRetriever
    /\ emb_cache = <<>>
    /\ emb_hits = 0
    /\ emb_misses = 0
    /\ store_call = NoStoreCall

----------------------------------------------------------------------------
(* The API layer (server.py): the settings document, the chat log and the    *)
(* two handlers POST /settings and POST /chat.  A document of db.settings is *)
(* a record of its fields, None for a field it does not have.                *)

\* "Message too long (max 10,000 characters)"
max_message_length == 10000

\* number of documents db.chat_messages holds at most
MaxMessages == 2

ApiKeys == {"", "k1", "k2"}

\* db.settings holds no document with id "main"
NoDocument == [exists |-> FALSE, cerebras_api_key |-> None, gemini_api_key |-> None]

\* a document written before the key was renamed to cerebras_api_key
LegacyDocument == [exists |-> TRUE, cerebras_api_key |-> None, gemini_api_key |-> "g1"]

\* "not x" for a field value x
Falsy(x) == x \in {None, ""}

\* request.message: whether strip() leaves nothing, and its length
Messages ==
    {[blank |-> TRUE, length |-> 0], [blank |-> TRUE, length |-> 1],
     [blank |-> FALSE, length |-> 2],
     [blank |-> FALSE, length |-> max_message_length + 1]}

\* request.session_id
SessionIds == {None, "s1"}

\* what rag_service.get_response does as chat sees it: it returns its three
\* values, or raises an exception whose message holds the words given
RagOutcomes ==
    {[raised |-> FALSE, words |-> {}],
     [raised |-> TRUE, words |-> {}],
     [raised |-> TRUE, words |-> {"invalid"}],
     [raised |-> TRUE, words |-> {"exceeded"}]}

\* the words of str(rag_error): unpacking three returned values into
\* "response_text, sources" raises ValueError inside the try block
RagErrorWords(outcome) == IF outcome.raised THEN outcome.words ELSE {}

\* the status of the HTTPException raised for rag_error
RagErrorStatus(words) ==
    IF words \cap {"quota", "exceeded"} # {} THEN 429
    ELSE IF words \cap {"unauthorized", "invalid"} # {} THEN 401
    ELSE 500

NoHttp == [op |-> "", body |-> <<>>, status |-> 0, detail |-> "", rag_called |-> FALSE]

\* no request has been handled
NoServer ==
    /\ settings_doc = NoDocument
    /\ rag_api_key = None
    /\ chat_messages = <<>>
    /\ http = NoHttp

----------------------------------------------------------------------------
(* Document indexing (server.py, document_cache.py).  A file's content is a  *)
(* version number, 0 when the file does not exist.                           *)

Files == {"f1", "f2"}

\* the contents a file can have
Versions == {1, 2}

\* number of file events the watcher delivers
MaxEvents == 2

\* calculate_file_hash: MD5 of the content (equal for equal contents only)
FileHash(version) == <<"md5", version>>

\* file_path.stat().st_size
FileSize(version) == 1 + (version % 2)

\* len(text_chunks) for a file that is processed without error
ChunkCount(f) == IF f = "f1" THEN 1 ELSE 2

\* get_cached_document found nothing
NoEntry == [cached |-> FALSE, file_hash |-> <<>>, file_size |-> 0, chunks_count |-> 0]

\* the entry update_cache writes
CacheEntry(version, chunks_count) ==
    [cached |-> TRUE, file_hash |-> FileHash(version), file_size |-> FileSize(version),
     chunks_count |-> chunks_count]

\* a change test that finds every document changed
IsDocumentChanged_always(entry, version) == TRUE

\* DocumentCache.is_document_changed
IsDocumentChanged(entry, version) ==
    IF ~entry.cached THEN TRUE
    ELSE IF entry.file_hash # FileHash(version) THEN TRUE
    ELSE IF entry.file_size # FileSize(version) THEN TRUE
    ELSE FALSE

RECURSIVE TotalChunks(_)
\* len(all_chunks) for the files of S
TotalChunks(S) ==
    IF S = {} THEN 0
    ELSE LET f == CHOOSE x \in S : TRUE IN ChunkCount(f) + TotalChunks(S \ {f})

RECURSIVE CachedChunks(_, _)
\* get_cache_stats: "$sum" of chunks_count over the entries of the files of S
CachedChunks(entries, S) ==
    IF S = {} THEN 0
    ELSE LET f == CHOOSE x \in S : TRUE
         IN  (IF entries[f].cached THEN entries[f].chunks_count ELSE 0)
                 + CachedChunks(entries, S \ {f})

\* a run that clears the flag when it ends
FlagAfterRun_cleared(flag) == FALSE

\* process_documents does not touch pending_reindex
FlagAfterRun(flag) == flag

NoRun == [kind |-> "", tick |-> 0, processed |-> {}, ok |-> {}, inserted |-> FALSE]

\* the server has not started
NoIndex ==
    /\ files = [f \in Files |-> 0]
    /\ doc_cache = [f \in Files |-> NoEntry]
    /\ store_chunks = 0
    /\ run = NoRun
    /\ pending_reindex = FALSE
    /\ loop_pc = "down"
    /\ events = 0
    /\ covered = 0

----------------------------------------------------------------------------
(* RAGService *)

max_retries == 3

initial_retrieval_count == 10

variation_retrieval_count == 2

final_results_count == 8

\* -2.5
min_reranker_score == -((5 * ScoreUnit) \div 2)

\* 0.20, in hundredths
prefilter_threshold == 20

\* fewer pre-filtered candidates than this trigger the fallback
prefilter_min_docs == 5

\* the fallback keeps this many unfiltered candidates
prefilter_fallback_docs == 10

\* RAGService.__init__: RerankerOptimized, or Reranker when that raised;
\* either may have come up without a model (self.model = None)
RerankerChoices ==
    [impl : {"RerankerOptimized", "Reranker"}, model_loaded : BOOLEAN]

\* What the query makes its collaborators do: whether enhance_query raises,
\* how many variations it returns (the corrected query is variation 1), whether
\* it returns a spelling suggestion, whether the query counts as non-French,
\* and the flattened entity list the extractor finds in the query.
MaxVariations == 2

Requests ==
    [enhancer_raises : BOOLEAN, n_variations : 1..MaxVariations,
     has_suggestion : BOOLEAN, is_non_french_query : BOOLEAN,
     query_entities : {<<>>, <<"e1", "e2">>}]

\* str(e).lower() as the set of marker substrings it contains
QuotaWords == {"quota", "429", "resource_exhausted", "rate"}

AuthWords == {"unauthorized", "401", "invalid", "authentication"}

\* messages an LLM call can fail with
LLMErrors ==
    {{"429", "rate"}, {"quota"}, {"401", "unauthorized"}, {"invalid", "rate"},
     {"timeout"}}

\* calling Reranker.rerank with enable_exact_match_boost=True
KeywordTypeError == {"unexpected keyword argument"}

\* an except block that lacks the authentication test
ErrorKind_noAuthTest(e) ==
    IF e \cap QuotaWords # {} THEN "quota" ELSE "other"

\* the two "if ... in error_str" tests of the except block, in their order
ErrorKind(e) ==
    IF e \cap QuotaWords # {} THEN "quota"
    ELSE IF e \cap AuthWords # {} THEN "auth"
    ELSE "other"

\* wait_time = 2 ** attempt
WaitTime(a) == 2 ^ a

\* a retry guard that is off by one: "if attempt < self.max_retries"
ShouldRetry_offByOne(a) == a < max_retries

\* "if attempt < self.max_retries - 1"
ShouldRetry(a) == a < max_retries - 1

RECURSIVE DedupFrom(_, _, _)
\* the "Remove duplicates" loop from position i on, seen being the doc[:100] keys so far
DedupFrom(all_docs, i, seen) ==
    IF i > Len(all_docs) THEN <<>>
    ELSE IF all_docs[i].prefix \in seen THEN DedupFrom(all_docs, i + 1, seen)
    ELSE <<all_docs[i]>> \o DedupFrom(all_docs, i + 1, seen \cup {all_docs[i].prefix})

Dedup(all_docs) == DedupFrom(all_docs, 1, {})

\* a pipeline that lacks the "if not unique_docs" test
NoDocumentsFound_never(docs) == FALSE

\* "if not unique_docs"
NoDocumentsFound(docs) == docs = <<>>

\* results of vector_service.search(query, n_results, use_hybrid=True):
\* at most retrieval_count = min(n_results * 2, count) chunks
SearchResults(n_results) == {r \in ResultLists : Len(r) <= n_results * 2}

\* query_variations[1:min(2, len(query_variations))]: how many are searched
VariationsSearched(n_variations) == Min(2, n_variations) - 1

\* the condition of the pre-filter loop
PassesPrefilter(c) ==
    \/ c.relevance_score >= prefilter_threshold
    \/ c.bm25_score > 2 * Hundred
    \/ c.rrf_score > 2 * Hundred

\* Step 2.5 with its fallback
Prefilter(docs) ==
    LET kept == SelectSeq(docs, PassesPrefilter)
    IN  IF Len(kept) < prefilter_min_docs /\ Len(docs) >= prefilter_min_docs
            THEN Take(docs, prefilter_fallback_docs)
        ELSE IF kept # <<>> THEN kept
        ELSE docs

\* Step 4 and "Take top N results"
Thresholded(metadata) ==
    IF metadata # <<>>
        THEN LET scores  == [i \in 1..Len(metadata) |-> RerankerScore(metadata[i])]
                 dynamic == ComputeDynamicThreshold(scores, 20)
                 floor   == Max(Hundred * min_reranker_score, dynamic)
             IN  Take(FilterByConfidence(metadata, floor, TRUE), final_results_count)
        ELSE Take(metadata, final_results_count)

\* round(x, 3) of a score in ScoreUnit-ths, in thousandths (no score in
\* twelfths lies halfway between two thousandths)
Round3(score) == (2 * 1000 * score + ScoreUnit) \div (2 * ScoreUnit)

\* "Prepare sources for response"
Sources(metadata) ==
    [i \in 1..Len(metadata) |->
        [source |-> metadata[i].chunk.text,
         relevance_score |-> 10 * metadata[i].chunk.relevance_score,
         reranker_score |-> Round3(RerankerScore(metadata[i]))]]

Pending == [status |-> "pending", message |-> "", note |-> FALSE,
            sources |-> <<>>, spelling_suggestion |-> FALSE]

Returned(message, srcs) ==
    [status |-> "returned", message |-> message,
     note |-> request.is_non_french_query, sources |-> srcs,
     spelling_suggestion |-> request.has_suggestion]

Raised(message) ==
    [status |-> "raised", message |-> message, note |-> FALSE,
     sources |-> <<>>, spelling_suggestion |-> FALSE]

\* number of threads calling the cache
NumThreads == 2

NoThread == 0

NoThreadCall == [op |-> "", key |-> <<>>, value |-> None]

\* no thread is in a call on the cache
NoThreads ==
    /\ lock = NoThread
    /\ thread_pc = [t \in 1..NumThreads |-> "idle"]
    /\ thread_call = [t \in 1..NumThreads |-> NoThreadCall]
    /\ oldest_key = [t \in 1..NumThreads |-> <<>>]

NoTimestamps == [k \in {} |-> 0]

NoCall == [op |-> "", params |-> <<>>, value |-> None]

\* no cache has been built
NoCache ==
    /\ cache_class = ""
    /\ max_size = 0
    /\ ttl_seconds = 0
    /\ cache = <<>>
    /\ timestamps = NoTimestamps
    /\ hits = 0
    /\ misses = 0
    /\ now = 0
    /\ last_call = NoCall
    /\ uses = <<>>

RagInit ==
    /\ reranker \in RerankerChoices
    /\ request \in Requests
    /\ pc = "enhance"
    /\ attempt = 0
    /\ unique_docs = <<>>
    /\ prefiltered_docs = <<>>
    /\ reranked_metadata = <<>>
    /\ final_metadata = <<>>
    /\ err = {}
    /\ result = Pending
    /\ llm_calls = 0
    /\ sleeps = <<>>

\* Step 1: enhance_query is called outside the try block
Enhance ==
    /\ pc = "enhance"
    /\ IF request.enhancer_raises
         THEN /\ result' = Raised("enhancer error")
              /\ pc' = "done"
         ELSE /\ pc' = "retrieve"
              /\ UNCHANGED result
    /\ UNCHANGED <<reranker, request, attempt, unique_docs, prefiltered_docs,
                   reranked_metadata, final_metadata, err, llm_calls, sleeps>>
    /\ UNCHANGED not_rag_vars

\* Step 2: the searches, the deduplication and the "no documents" return
Retrieve ==
    /\ pc = "retrieve"
    /\ \E main \in SearchResults(initial_retrieval_count),
          variation \in SearchResults(variation_retrieval_count) :
         LET all_docs == main \o (IF VariationsSearched(request.n_variations) > 0
                                    THEN variation ELSE <<>>)
         IN  /\ unique_docs' = Dedup(all_docs)
             /\ IF NoDocumentsFound(unique_docs')
                  THEN /\ result' = Returned("no documents", <<>>)
                       /\ pc' = "done"
                  ELSE /\ pc' = "prefilter"
                       /\ UNCHANGED result
    /\ prefiltered_docs' = <<>>
    /\ reranked_metadata' = <<>>
    /\ final_metadata' = <<>>
    /\ UNCHANGED <<reranker, request, attempt, err, llm_calls, sleeps>>
    /\ UNCHANGED not_rag_vars

\* Step 2.5
PrefilterStep ==
    /\ pc = "prefilter"
    /\ prefiltered_docs' = Prefilter(unique_docs)
    /\ pc' = "rerank"
    /\ UNCHANGED <<reranker, request, attempt, unique_docs, reranked_metadata,
                   final_metadata, err, result, llm_calls, sleeps>>
    /\ UNCHANGED not_rag_vars

\* Step 3: self.reranker.rerank(..., top_k=min(...), enable_exact_match_boost=True);
\* Reranker.rerank takes no enable_exact_match_boost, so the call raises TypeError
RerankStep ==
    /\ pc = "rerank"
    /\ IF reranker.impl = "RerankerOptimized"
         THEN /\ \E r \in RerankerOptimized_rerank(
                            reranker.model_loaded, request.query_entities,
                            prefiltered_docs,
                            Min(initial_retrieval_count, Len(prefiltered_docs)), TRUE) :
                    IF r.raised
                      THEN /\ err' = {"reranker"}
                           /\ pc' = "handle_error"
                           /\ UNCHANGED reranked_metadata
                      ELSE /\ reranked_metadata' = r.out
                           /\ pc' = "threshold"
                           /\ UNCHANGED err
         ELSE /\ err' = KeywordTypeError
              /\ pc' = "handle_error"
              /\ UNCHANGED reranked_metadata
    /\ UNCHANGED <<reranker, request, attempt, unique_docs, prefiltered_docs,
                   final_metadata, result, llm_calls, sleeps>>
    /\ UNCHANGED not_rag_vars

\* Step 4, the cut to final_results_count and the "low relevance" return
ThresholdStep ==
    /\ pc = "threshold"
    /\ final_metadata' = Thresholded(reranked_metadata)
    /\ IF final_metadata' = <<>>
         THEN /\ result' = Returned("low relevance", <<>>)
              /\ pc' = "done"
         ELSE /\ pc' = "generate"
              /\ UNCHANGED result
    /\ UNCHANGED <<reranker, request, attempt, unique_docs, prefiltered_docs,
                   reranked_metadata, err, llm_calls, sleeps>>
    /\ UNCHANGED not_rag_vars

\* Steps 5 and 6: the context, the sources and one call of the LLM
Generate ==
    /\ pc = "generate"
    /\ llm_calls' = llm_calls + 1
    /\ \/ /\ result' = Returned("answer", Sources(final_metadata))
          /\ pc' = "done"
          /\ UNCHANGED err
       \/ /\ \E e \in LLMErrors : err' = e
          /\ pc' = "handle_error"
          /\ UNCHANGED result
    /\ UNCHANGED <<reranker, request, attempt, unique_docs, prefiltered_docs,
                   reranked_metadata, final_metadata, sleeps>>
    /\ UNCHANGED not_rag_vars

\* the except block
HandleError ==
    /\ pc = "handle_error"
    /\ IF ErrorKind(err) = "quota"
         THEN /\ result' = Raised("quota exceeded")
              /\ pc' = "done"
              /\ UNCHANGED <<attempt, sleeps>>
       ELSE IF ErrorKind(err) = "auth"
         THEN /\ result' = Raised("invalid api key")
              /\ pc' = "done"
              /\ UNCHANGED <<attempt, sleeps>>
       ELSE IF ShouldRetry(attempt)
         THEN /\ sleeps' = Append(sleeps, WaitTime(attempt))
              /\ attempt' = attempt + 1
              /\ pc' = "retrieve"
              /\ UNCHANGED result
         ELSE /\ result' = Raised("retries exhausted")
              /\ pc' = "done"
              /\ UNCHANGED <<attempt, sleeps>>
    /\ UNCHANGED <<reranker, request, unique_docs, prefiltered_docs,
                   reranked_metadata, final_metadata, err, llm_calls>>
    /\ UNCHANGED not_rag_vars

\* no ranking call is under way
RankIdle == fn = "" /\ args = <<>> /\ ret = <<>>

Init == RagInit /\ RankIdle /\ NoCache /\ NoThreads /\ NoStore /\ NoServer
    /\ NoIndex

Next ==
    \/ Enhance
    \/ Retrieve
    \/ PrefilterStep
    \/ RerankStep
    \/ ThresholdStep
    \/ Generate
    \/ HandleError

Spec == Init /\ [][Next]_vars

\* get_response runs to its end once called
FairSpec == Spec /\ WF_vars(Next)

----------------------------------------------------------------------------
(* One call of a ranking stage on inputs drawn from small sets.  The stages  *)
(* are pure functions of their arguments and of the state of the object they *)
(* read; no request is under way while they are exercised.                   *)

\* flattened entity lists of a query; in the last one the two strings are
\* each extracted under four categories
QueryEntityLists ==
    {<<>>, <<"e1", "e2">>, <<"e1", "e2", "e1", "e2", "e1", "e2", "e1", "e2">>}

\* the list of sources get_response builds from the prefiltered documents when
\* rerank returns r: steps 3 and 4, the cut to final_results_count, the sources
ResponseSources(r) == Sources(Thresholded(r.out))

NoRequest ==
    /\ reranker = [impl |-> "RerankerOptimized", model_loaded |-> TRUE]
    /\ request = <<>>
    /\ pc = "idle"
    /\ attempt = 0
    /\ unique_docs = <<>>
    /\ prefiltered_docs = <<>>
    /\ reranked_metadata = <<>>
    /\ final_metadata = <<>>
    /\ err = {}
    /\ result = Pending
    /\ llm_calls = 0
    /\ sleeps = <<>>

RankInit == NoRequest /\ RankIdle /\ NoCache /\ NoThreads /\ NoStore /\ NoServer
    /\ NoIndex

CallSearchSparse ==
    /\ fn = ""
    /\ \E retriever \in Corpora, n_results \in 0..(MaxCorpus + 1) :
       \E scores \in [1..Len(retriever.corpus_texts) -> BM25Scores] :
       \E out \in SearchSparse(retriever, scores, n_results) :
          /\ fn' = "search_sparse"
          /\ args' = [retriever |-> retriever, scores |-> scores,
                      n_results |-> n_results]
          /\ ret' = out
    /\ UNCHANGED not_rank_vars

CallReciprocalRankFusion ==
    /\ fn = ""
    /\ \E dense_docs \in SeqsUpTo(FusionDocs, MaxDense),
          sparse_docs \in SeqsUpTo(FusionDocs, MaxSparse),
          k \in RRFConstants,
          n_results \in {0, 2, MaxDense + MaxSparse} :
          /\ fn' = "reciprocal_rank_fusion"
          /\ args' = [dense_docs |-> dense_docs, sparse_docs |-> sparse_docs,
                      k |-> k, n_results |-> n_results]
          /\ ret' = ReciprocalRankFusion(dense_docs, sparse_docs, k, n_results)
    /\ UNCHANGED not_rank_vars

CallRerankerOptimized ==
    /\ fn = ""
    /\ \E model_loaded \in BOOLEAN, query_entities \in QueryEntityLists,
          documents \in ResultLists, top_k \in 0..(PoolSize + 1),
          boost \in BOOLEAN :
       \E r \in RerankerOptimized_rerank(model_loaded, query_entities, documents,
                                         top_k, boost) :
          /\ fn' = "RerankerOptimized.rerank"
          /\ args' = [model_loaded |-> model_loaded, query_entities |-> query_entities,
                      documents |-> documents, top_k |-> top_k, boost |-> boost]
          /\ ret' = r
    /\ UNCHANGED not_rank_vars

CallReranker ==
    /\ fn = ""
    /\ \E model_loaded \in BOOLEAN, query_entities \in QueryEntityLists,
          documents \in ResultLists, top_k \in 0..(PoolSize + 1) :
       \E r \in Reranker_rerank(model_loaded, query_entities, documents, top_k) :
          /\ fn' = "Reranker.rerank"
          /\ args' = [model_loaded |-> model_loaded, query_entities |-> query_entities,
                      documents |-> documents, top_k |-> top_k, boost |-> FALSE]
          /\ ret' = r
    /\ UNCHANGED not_rank_vars

\* get_response from the rerank call to the sources of the response
CallResponseSources ==
    /\ fn = ""
    /\ \E model_loaded \in BOOLEAN, query_entities \in QueryEntityLists,
          documents \in ResultLists \ {<<>>} :
       \E r \in RerankerOptimized_rerank(
                    model_loaded, query_entities, documents,
                    Min(initial_retrieval_count, Len(documents)), TRUE) :
          /\ fn' = "get_response"
          /\ args' = [model_loaded |-> model_loaded, query_entities |-> query_entities,
                      documents |-> documents]
          /\ ret' = ResponseSources(r)
    /\ UNCHANGED not_rank_vars

\* min_score arguments, times Hundred: the default 0.0 and min_reranker_score
MinScores == {0, Hundred * min_reranker_score}

\* metadata lists as rerank returns them
RerankedLists ==
    {r.out : r \in UNION {RerankerOptimized_rerank(TRUE, query_entities, documents,
                                                   Len(documents), TRUE) :
                             query_entities \in QueryEntityLists,
                             documents \in ResultLists}}

CallFilterByConfidence ==
    /\ fn = ""
    /\ \E metadata \in RerankedLists, min_score100 \in MinScores,
          use_dynamic_threshold \in BOOLEAN :
          /\ fn' = "filter_by_confidence"
          /\ args' = [metadata |-> metadata, min_score100 |-> min_score100,
                      use_dynamic_threshold |-> use_dynamic_threshold]
          /\ ret' = FilterByConfidence(metadata, min_score100, use_dynamic_threshold)
    /\ UNCHANGED not_rank_vars

CallComputeEntityOverlap ==
    /\ fn = ""
    /\ \E extracted \in ExtractedEntities, i \in 1..PoolSize :
          /\ fn' = "compute_entity_overlap"
          /\ args' = [extracted |-> extracted, text |-> Chunk(i)]
          /\ ret' = ComputeEntityOverlap(extracted, Chunk(i))
    /\ UNCHANGED not_rank_vars

RankNext ==
    \/ CallComputeEntityOverlap
    \/ CallSearchSparse
    \/ CallReciprocalRankFusion
    \/ CallRerankerOptimized
    \/ CallReranker
    \/ CallResponseSources
    \/ CallFilterByConfidence

RankSpec == RankInit /\ [][RankNext]_vars

----------------------------------------------------------------------------
(* One cache, EmbeddingCache or QueryCache, under calls of get, put and      *)
(* clear.  The body of each call runs under self.lock, so a call is one      *)
(* step.  time.time() is the clock now, advanced by Tick.                    *)

\* __init__ of either class; the TTL of the model is one second
CacheInit ==
    /\ cache_class \in {"EmbeddingCache", "QueryCache"}
    /\ max_size \in 1..MaxSize
    /\ ttl_seconds = IF cache_class = "QueryCache" THEN 1 ELSE 0
    /\ cache = <<>>
    /\ timestamps = NoTimestamps
    /\ hits = 0
    /\ misses = 0
    /\ now = 0
    /\ last_call = NoCall
    /\ uses = <<>>

\* the order of last use after a use of key (uses is a history variable: it
\* lists the cached keys from the least to the most recently put or hit)
Used(order, key) == SelectSeq(order, LAMBDA k : k # key) \o <<key>>

\* the order of last use restricted to the keys still cached
StillCached(order, d) == SelectSeq(order, LAMBDA k : Contains(d, k))

EmbeddingCache_get ==
    /\ cache_class = "EmbeddingCache"
    /\ hits + misses < MaxGets
    /\ \E p \in EmbeddingParams :
        LET key == EmbeddingCache_compute_key(p)
        IN  IF Contains(cache, key)
              THEN /\ cache' = MoveToEnd(cache, key)
                   /\ hits' = hits + 1
                   /\ last_call' = [op |-> "get", params |-> p,
                                    value |-> Lookup(cache, key)]
                   /\ uses' = Used(uses, key)
                   /\ UNCHANGED misses
              ELSE /\ misses' = misses + 1
                   /\ last_call' = [op |-> "get", params |-> p, value |-> None]
                   /\ UNCHANGED <<cache, hits, uses>>
    /\ UNCHANGED <<cache_class, max_size, ttl_seconds, timestamps, now>>
    /\ UNCHANGED not_cache_vars

EmbeddingCache_put ==
    /\ cache_class = "EmbeddingCache"
    /\ \E p \in EmbeddingParams, embedding \in Embeddings :
        LET key == EmbeddingCache_compute_key(p)
        IN  /\ cache' = Store(EvictOldest(cache, max_size), key, embedding)
            /\ last_call' = [op |-> "put", params |-> p, value |-> embedding]
            /\ uses' = StillCached(Used(uses, key), cache')
    /\ UNCHANGED <<cache_class, max_size, ttl_seconds, timestamps, hits, misses, now>>
    /\ UNCHANGED not_cache_vars

EmbeddingCache_clear ==
    /\ cache_class = "EmbeddingCache"
    /\ cache' = <<>>
    /\ hits' = 0
    /\ misses' = 0
    /\ last_call' = [op |-> "clear", params |-> <<>>, value |-> None]
    /\ uses' = <<>>
    /\ UNCHANGED <<cache_class, max_size, ttl_seconds, timestamps, now>>
    /\ UNCHANGED not_cache_vars

QueryCache_get ==
    /\ cache_class = "QueryCache"
    /\ hits + misses < MaxGets
    /\ \E p \in QueryParams :
        LET key == QueryCache_compute_key(p)
        IN  IF Contains(cache, key) /\ ~IsExpired(timestamps, key, now, ttl_seconds)
              THEN /\ cache' = MoveToEnd(cache, key)
                   /\ hits' = hits + 1
                   /\ last_call' = [op |-> "get", params |-> p,
                                    value |-> Lookup(cache, key)]
                   /\ uses' = Used(uses, key)
                   /\ UNCHANGED <<timestamps, misses>>
              ELSE IF Contains(cache, key)
              THEN /\ cache' = Delete(cache, key)
                   /\ timestamps' = WithoutKey(timestamps, key)
                   /\ misses' = misses + 1
                   /\ last_call' = [op |-> "get", params |-> p, value |-> None]
                   /\ uses' = StillCached(uses, cache')
                   /\ UNCHANGED hits
              ELSE /\ misses' = misses + 1
                   /\ last_call' = [op |-> "get", params |-> p, value |-> None]
                   /\ UNCHANGED <<cache, timestamps, hits, uses>>
    /\ UNCHANGED <<cache_class, max_size, ttl_seconds, now>>
    /\ UNCHANGED not_cache_vars

QueryCache_put ==
    /\ cache_class = "QueryCache"
    /\ \E p \in QueryParams, res \in QueryResults :
        LET key     == QueryCache_compute_key(p)
            evicted == EvictOldest(cache, max_size)
        IN  /\ cache' = Store(evicted, key, res)
            /\ timestamps' =
                  WithKey([k \in Keys(evicted) |-> timestamps[k]], key, now)
            /\ last_call' = [op |-> "put", params |-> p, value |-> res]
            /\ uses' = StillCached(Used(uses, key), cache')
    /\ UNCHANGED <<cache_class, max_size, ttl_seconds, hits, misses, now>>
    /\ UNCHANGED not_cache_vars

QueryCache_clear ==
    /\ cache_class = "QueryCache"
    /\ cache' = <<>>
    /\ timestamps' = NoTimestamps
    /\ hits' = 0
    /\ misses' = 0
    /\ last_call' = [op |-> "clear", params |-> <<>>, value |-> None]
    /\ uses' = <<>>
    /\ UNCHANGED <<cache_class, max_size, ttl_seconds, now>>
    /\ UNCHANGED not_cache_vars

\* a second passes; only QueryCache reads the clock
Tick ==
    /\ cache_class = "QueryCache"
    /\ now < MaxTime
    /\ now' = now + 1
    /\ UNCHANGED <<cache_class, max_size, ttl_seconds, cache, timestamps, hits,
                   misses, last_call, uses>>
    /\ UNCHANGED not_cache_vars

CacheSpecInit == NoRequest /\ RankIdle /\ CacheInit /\ NoThreads /\ NoStore /\ NoServer
    /\ NoIndex

CacheNext ==
    \/ EmbeddingCache_get
    \/ EmbeddingCache_put
    \/ EmbeddingCache_clear
    \/ QueryCache_get
    \/ QueryCache_put
    \/ QueryCache_clear
    \/ Tick

CacheSpec == CacheSpecInit /\ [][CacheNext]_vars

----------------------------------------------------------------------------
(* One cache shared by several threads.  Each statement of a call's body is  *)
(* one step; "with self.lock" is Acquire at its entry and Release at its     *)
(* exit.  The key is computed before the lock is taken, from the arguments   *)
(* alone, so the choice of the call is made at Acquire.  What a get returns  *)
(* goes to its caller and is not kept in the state.                          *)

Threads == 1..NumThreads

\* the arguments the threads call the cache with
SharedParams(class) ==
    IF class = "QueryCache"
        THEN {[query |-> <<"a">>, n_results |-> 10, use_hybrid |-> TRUE],
              [query |-> <<"a">>, n_results |-> 10, use_hybrid |-> FALSE]}
        ELSE {[query |-> <<"a">>, model_name |-> <<"default">>],
              [query |-> <<"b">>, model_name |-> <<"default">>]}

ValuesOf(class) == IF class = "QueryCache" THEN QueryResults ELSE Embeddings

KeyOf(class, p) ==
    IF class = "QueryCache" THEN QueryCache_compute_key(p)
    ELSE EmbeddingCache_compute_key(p)

\* the calls a thread can make: op, the computed key, the value to put
ThreadCalls(class) ==
    {[op |-> "get", key |-> KeyOf(class, p), value |-> None] :
        p \in SharedParams(class)}
    \cup {[op |-> "put", key |-> KeyOf(class, p), value |-> v] :
            p \in SharedParams(class), v \in ValuesOf(class)}
    \cup {[op |-> "clear", key |-> <<>>, value |-> None]}

\* a lock that is always granted
LockAvailable_always(l) == TRUE

\* threading.Lock: it is granted when no thread holds it
LockAvailable(l) == l = NoThread

\* the thread goes to the statement at position next
Goto(t, next) == thread_pc' = [thread_pc EXCEPT ![t] = next]

Acquire(t) ==
    /\ cache_class # ""
    /\ thread_pc[t] = "idle"
    /\ LockAvailable(lock)
    /\ lock' = t
    /\ \E call \in ThreadCalls(cache_class) :
          /\ call.op = "get" => hits + misses < MaxGets
          /\ thread_call' = [thread_call EXCEPT ![t] = call]
          /\ Goto(t, IF call.op = "clear" THEN "clear_cache" ELSE "test")
    /\ UNCHANGED <<oldest_key, cache_class, max_size, ttl_seconds, cache, timestamps,
                   hits, misses, now, last_call, uses>>
    /\ UNCHANGED not_conc_vars

\* get: "if key in self.cache [and not self._is_expired(key)]", "elif", "else"
GetTest(t) ==
    /\ thread_pc[t] = "test"
    /\ thread_call[t].op = "get"
    /\ LET key == thread_call[t].key
       IN  IF cache_class = "QueryCache"
             THEN IF Contains(cache, key) /\ ~IsExpired(timestamps, key, now, ttl_seconds)
                    THEN Goto(t, "move_to_end")
                    ELSE IF Contains(cache, key) THEN Goto(t, "del_cache")
                    ELSE Goto(t, "count_miss")
             ELSE IF Contains(cache, key) THEN Goto(t, "move_to_end")
                  ELSE Goto(t, "count_miss")
    /\ UNCHANGED <<lock, thread_call, oldest_key, cache_vars>>
    /\ UNCHANGED not_conc_vars

\* "self.cache.move_to_end(key)"; KeyError ends the call if the key is gone
MoveToEndStep(t) ==
    /\ thread_pc[t] = "move_to_end"
    /\ IF Contains(cache, thread_call[t].key)
         THEN /\ cache' = MoveToEnd(cache, thread_call[t].key)
              /\ Goto(t, "count_hit")
         ELSE /\ Goto(t, "release")
              /\ UNCHANGED cache
    /\ UNCHANGED <<lock, thread_call, oldest_key, cache_class, max_size, ttl_seconds,
                   timestamps, hits, misses, now, last_call, uses>>
    /\ UNCHANGED not_conc_vars

\* "self.hits += 1" and the return
CountHit(t) ==
    /\ thread_pc[t] = "count_hit"
    /\ hits' = hits + 1
    /\ Goto(t, "release")
    /\ UNCHANGED <<lock, thread_call, oldest_key, cache_class, max_size, ttl_seconds,
                   cache, timestamps, misses, now, last_call, uses>>
    /\ UNCHANGED not_conc_vars

\* "self.misses += 1" and the return
CountMiss(t) ==
    /\ thread_pc[t] = "count_miss"
    /\ misses' = misses + 1
    /\ Goto(t, "release")
    /\ UNCHANGED <<lock, thread_call, oldest_key, cache_class, max_size, ttl_seconds,
                   cache, timestamps, hits, now, last_call, uses>>
    /\ UNCHANGED not_conc_vars

\* put: "if len(self.cache) >= self.max_size: oldest_key = next(iter(self.cache))"
PutTest(t) ==
    /\ thread_pc[t] = "test"
    /\ thread_call[t].op = "put"
    /\ IF Len(cache) >= max_size
         THEN /\ oldest_key' = [oldest_key EXCEPT ![t] = cache[1].key]
              /\ Goto(t, "del_cache")
         ELSE /\ Goto(t, "store")
              /\ UNCHANGED oldest_key
    /\ UNCHANGED <<lock, thread_call, cache_vars>>
    /\ UNCHANGED not_conc_vars

\* the key a del statement of thread t deletes
DelKey(t) == IF thread_call[t].op = "put" THEN oldest_key[t] ELSE thread_call[t].key

\* "del self.cache[oldest_key]" of put, "del self.cache[key]" of get
DelCache(t) ==
    /\ thread_pc[t] = "del_cache"
    /\ IF Contains(cache, DelKey(t))
         THEN /\ cache' = Delete(cache, DelKey(t))
              /\ Goto(t, IF cache_class = "QueryCache" THEN "del_timestamp" ELSE "store")
         ELSE /\ Goto(t, "release")
              /\ UNCHANGED cache
    /\ UNCHANGED <<lock, thread_call, oldest_key, cache_class, max_size, ttl_seconds,
                   timestamps, hits, misses, now, last_call, uses>>
    /\ UNCHANGED not_conc_vars

\* "del self.timestamps[oldest_key]" of put, "del self.timestamps[key]" of get
DelTimestamp(t) ==
    /\ thread_pc[t] = "del_timestamp"
    /\ IF DelKey(t) \in DOMAIN timestamps
         THEN /\ timestamps' = WithoutKey(timestamps, DelKey(t))
              /\ Goto(t, IF thread_call[t].op = "put" THEN "store" ELSE "count_miss")
         ELSE /\ Goto(t, "release")
              /\ UNCHANGED timestamps
    /\ UNCHANGED <<lock, thread_call, oldest_key, cache_class, max_size, ttl_seconds,
                   cache, hits, misses, now, last_call, uses>>
    /\ UNCHANGED not_conc_vars

\* "self.cache[key] = embedding", "self.cache[key] = result"
StoreStep(t) ==
    /\ thread_pc[t] = "store"
    /\ cache' = Store(cache, thread_call[t].key, thread_call[t].value)
    /\ Goto(t, IF cache_class = "QueryCache" THEN "stamp" ELSE "release")
    /\ UNCHANGED <<lock, thread_call, oldest_key, cache_class, max_size, ttl_seconds,
                   timestamps, hits, misses, now, last_call, uses>>
    /\ UNCHANGED not_conc_vars

\* "self.timestamps[key] = time.time()"
Stamp(t) ==
    /\ thread_pc[t] = "stamp"
    /\ timestamps' = WithKey(timestamps, thread_call[t].key, now)
    /\ Goto(t, "release")
    /\ UNCHANGED <<lock, thread_call, oldest_key, cache_class, max_size, ttl_seconds,
                   cache, hits, misses, now, last_call, uses>>
    /\ UNCHANGED not_conc_vars

\* clear: "self.cache.clear()" and, in QueryCache, "self.timestamps.clear()"
ClearCache(t) ==
    /\ thread_pc[t] = "clear_cache"
    /\ cache' = <<>>
    /\ Goto(t, IF cache_class = "QueryCache" THEN "clear_timestamps" ELSE "reset_counters")
    /\ UNCHANGED <<lock, thread_call, oldest_key, cache_class, max_size, ttl_seconds,
                   timestamps, hits, misses, now, last_call, uses>>
    /\ UNCHANGED not_conc_vars

ClearTimestamps(t) ==
    /\ thread_pc[t] = "clear_timestamps"
    /\ timestamps' = NoTimestamps
    /\ Goto(t, "reset_counters")
    /\ UNCHANGED <<lock, thread_call, oldest_key, cache_class, max_size, ttl_seconds,
                   cache, hits, misses, now, last_call, uses>>
    /\ UNCHANGED not_conc_vars

\* clear: "self.hits = 0; self.misses = 0"
ResetCounters(t) ==
    /\ thread_pc[t] = "reset_counters"
    /\ hits' = 0
    /\ misses' = 0
    /\ Goto(t, "release")
    /\ UNCHANGED <<lock, thread_call, oldest_key, cache_class, max_size, ttl_seconds,
                   cache, timestamps, now, last_call, uses>>
    /\ UNCHANGED not_conc_vars

\* the end of the with block, on return or on an exception
Release(t) ==
    /\ thread_pc[t] = "release"
    /\ lock' = NoThread
    /\ Goto(t, "idle")
    /\ thread_call' = [thread_call EXCEPT ![t] = NoThreadCall]
    /\ oldest_key' = [oldest_key EXCEPT ![t] = <<>>]
    /\ UNCHANGED cache_vars
    /\ UNCHANGED not_conc_vars

ConcInit == NoRequest /\ RankIdle /\ CacheInit /\ NoThreads /\ NoStore /\ NoServer
    /\ NoIndex

ConcNext ==
    \/ \E t \in Threads :
          \/ Acquire(t)
          \/ GetTest(t)
          \/ MoveToEndStep(t)
          \/ CountHit(t)
          \/ CountMiss(t)
          \/ PutTest(t)
          \/ DelCache(t)
          \/ DelTimestamp(t)
          \/ StoreStep(t)
          \/ Stamp(t)
          \/ ClearCache(t)
          \/ ClearTimestamps(t)
          \/ ResetCounters(t)
          \/ Release(t)
    \/ Tick

ConcSpec == ConcInit /\ [][ConcNext]_vars

----------------------------------------------------------------------------
(* The operations of one VectorStoreService *)

\* __init__: empty caches, and an existing collection re-indexed for BM25
StoreInit ==
    /\ collection \in StoredCollections
    /\ hybrid_retriever = IndexDocuments(NewRetriever, collection)
    /\ emb_cache = <<>>
    /\ emb_hits = 0
    /\ emb_misses = 0
    /\ store_call = NoStoreCall
    /\ cache_class = "QueryCache"
    /\ max_size \in {1, MaxSize}
    /\ ttl_seconds = 1
    /\ cache = <<>>
    /\ timestamps = NoTimestamps
    /\ hits = 0
    /\ misses = 0
    /\ now = 0
    /\ last_call = NoCall
    /\ uses = <<>>

\* search(query, n_results, use_hybrid)
Search ==
    /\ hits + misses < MaxGets
    /\ \E p \in SearchParams :
        LET key  == QueryCache_compute_key(p)
            ekey == EmbeddingCache_compute_key([query |-> p.query, model_name |-> TheModel])
            hit  == CacheHit(cache, timestamps, key, now, ttl_seconds)
        IN  IF hit
              THEN \* "if cached_result is not None: return cached_result"
                   /\ cache' = MoveToEnd(cache, key)
                   /\ hits' = hits + 1
                   /\ store_call' = [op |-> "search", params |-> p,
                                     returned |-> Lookup(cache, key), retrieved |-> FALSE]
                   /\ UNCHANGED <<timestamps, misses, emb_cache, emb_hits, emb_misses>>
              ELSE /\ misses' = misses + 1
                   /\ UNCHANGED hits
                   /\ IF collection = <<>>
                        THEN \* "if count == 0: return [], []"
                             /\ cache' = Delete(cache, key)
                             /\ timestamps' = WithoutKey(timestamps, key)
                             /\ store_call' = [op |-> "search", params |-> p,
                                               returned |-> <<>>, retrieved |-> FALSE]
                             /\ UNCHANGED <<emb_cache, emb_hits, emb_misses>>
                        ELSE \/ \* retrieval raises: "except Exception: return [], []"
                                /\ cache' = Delete(cache, key)
                                /\ timestamps' = WithoutKey(timestamps, key)
                                /\ store_call' = [op |-> "search", params |-> p,
                                                  returned |-> <<>>, retrieved |-> FALSE]
                                /\ UNCHANGED <<emb_cache, emb_hits, emb_misses>>
                             \/ \E docs \in Retrieval(collection, hybrid_retriever, p) :
                                LET evicted == EvictOldest(Delete(cache, key), max_size)
                                IN  /\ IF Contains(emb_cache, ekey)
                                         THEN /\ emb_cache' = MoveToEnd(emb_cache, ekey)
                                              /\ emb_hits' = emb_hits + 1
                                              /\ UNCHANGED emb_misses
                                         ELSE /\ emb_cache' =
                                                    Store(EvictOldest(emb_cache, MaxSize),
                                                          ekey, "v1")
                                              /\ emb_misses' = emb_misses + 1
                                              /\ UNCHANGED emb_hits
                                    /\ cache' = Store(evicted, key, Texts(docs))
                                    /\ timestamps' =
                                          WithKey([k \in Keys(evicted) |-> timestamps[k]],
                                                  key, now)
                                    /\ store_call' = [op |-> "search", params |-> p,
                                                      returned |-> Texts(docs),
                                                      retrieved |-> TRUE]
    /\ UNCHANGED <<collection, hybrid_retriever, cache_class, max_size, ttl_seconds, now,
                   last_call, uses>>
    /\ UNCHANGED not_store_vars

\* add_documents(texts, metadata) running to its end
AddDocuments ==
    /\ \E texts \in Batches :
          /\ Len(collection) + Len(texts) <= MaxDocs
          /\ collection' = collection \o texts
          /\ hybrid_retriever' = IndexDocuments(hybrid_retriever, texts)
          /\ store_call' = [op |-> "add_documents", params |-> texts,
                            returned |-> <<>>, retrieved |-> FALSE]
    /\ UNCHANGED <<emb_cache, emb_hits, emb_misses, cache_vars>>
    /\ UNCHANGED not_store_vars

\* clear_collection()
ClearCollection ==
    /\ collection' = <<>>
    /\ hybrid_retriever' = NewRetriever
    /\ store_call' = [op |-> "clear_collection", params |-> <<>>,
                      returned |-> <<>>, retrieved |-> FALSE]
    /\ UNCHANGED <<emb_cache, emb_hits, emb_misses, cache_vars>>
    /\ UNCHANGED not_store_vars

\* clear_caches()
ClearCaches ==
    /\ emb_cache' = <<>>
    /\ emb_hits' = 0
    /\ emb_misses' = 0
    /\ cache' = <<>>
    /\ timestamps' = NoTimestamps
    /\ hits' = 0
    /\ misses' = 0
    /\ store_call' = [op |-> "clear_caches", params |-> <<>>,
                      returned |-> <<>>, retrieved |-> FALSE]
    /\ UNCHANGED <<collection, hybrid_retriever, cache_class, max_size, ttl_seconds, now,
                   last_call, uses>>
    /\ UNCHANGED not_store_vars

\* a second passes
StoreTick ==
    /\ now < MaxTime
    /\ now' = now + 1
    /\ UNCHANGED <<store_vars, cache_class, max_size, ttl_seconds, cache, timestamps,
                   hits, misses, last_call, uses>>
    /\ UNCHANGED not_store_vars

StoreSpecInit == NoRequest /\ RankIdle /\ NoThreads /\ StoreInit /\ NoServer
    /\ NoIndex

StoreNext ==
    \/ Search
    \/ AddDocuments
    \/ ClearCollection
    \/ ClearCaches
    \/ StoreTick

StoreSpec == StoreSpecInit /\ [][StoreNext]_vars

----------------------------------------------------------------------------
(* The handlers of server.py.  A handler runs from the request to the        *)
(* response in one step.  The database is empty or holds a settings document *)
(* from before the key was renamed.                                          *)

ServerInit ==
    /\ settings_doc \in {NoDocument, LegacyDocument}
    /\ rag_api_key = None
    /\ chat_messages = <<>>
    /\ http = NoHttp

\* POST /settings
update_settings ==
    /\ \E cerebras_api_key \in ApiKeys :
          \* update_one({"id": "main"}, {"$set": doc}, upsert=True)
          /\ settings_doc' = [settings_doc EXCEPT !.exists = TRUE,
                                                  !.cerebras_api_key = cerebras_api_key]
          /\ rag_api_key' = cerebras_api_key
          /\ http' = [op |-> "update_settings", body |-> cerebras_api_key,
                      status |-> 200, detail |-> "", rag_called |-> FALSE]
    /\ UNCHANGED chat_messages
    /\ UNCHANGED not_server_vars

Rejected(body, detail) ==
    /\ http' = [op |-> "chat", body |-> body, status |-> 400, detail |-> detail,
                rag_called |-> FALSE]
    /\ UNCHANGED chat_messages

\* POST /chat
chat ==
    /\ \E message \in Messages, session_id \in SessionIds :
       LET body == [message |-> message, session_id |-> session_id]
       IN  IF message.length = 0 \/ message.blank
               THEN Rejected(body, "Message cannot be empty")
           ELSE IF message.length > max_message_length
               THEN Rejected(body, "Message too long")
           ELSE IF ~settings_doc.exists \/ Falsy(settings_doc.gemini_api_key)
               THEN Rejected(body, "API key not configured")
           ELSE /\ Len(chat_messages) < MaxMessages
                /\ chat_messages' =
                      Append(chat_messages,
                             [session_id |-> IF Falsy(session_id) THEN "uuid"
                                             ELSE session_id,
                              role |-> "user"])
                /\ \E outcome \in RagOutcomes :
                      http' = [op |-> "chat", body |-> body,
                               status |-> RagErrorStatus(RagErrorWords(outcome)),
                               detail |-> "rag error", rag_called |-> TRUE]
    /\ UNCHANGED <<settings_doc, rag_api_key>>
    /\ UNCHANGED not_server_vars

ServerSpecInit ==
    NoRequest /\ RankIdle /\ NoCache /\ NoThreads /\ NoStore /\ ServerInit /\ NoIndex

ServerNext ==
    \/ update_settings
    \/ chat

ServerSpec == ServerSpecInit /\ [][ServerNext]_vars

----------------------------------------------------------------------------
(* Indexing runs and the file watcher.  process_documents is one step; the   *)
(* loop check_reindex_pending tests the flag, clears it, starts the run and   *)
(* gets it back, with the watcher thread's events in between.  The database   *)
(* and the collection are empty when the server first starts.                 *)

IndexInit ==
    /\ files \in {[f \in Files |-> 1], [f \in Files |-> IF f = "f1" THEN 1 ELSE 0],
                  [f \in Files |-> 0]}
    /\ doc_cache = [f \in Files |-> NoEntry]
    /\ store_chunks = 0
    /\ run = NoRun
    /\ pending_reindex = FALSE
    /\ loop_pc = "down"
    /\ events = 0
    /\ covered = 0

\* the record of a run
Ran(kind, processed, ok, inserted) ==
    [kind |-> kind, tick |-> 1 - run.tick, processed |-> processed, ok |-> ok,
     inserted |-> inserted]

\* process_documents(clear_existing, use_cache)
process_documents(kind, clear_existing, use_cache_arg) ==
    LET present == {f \in Files : files[f] # 0}
    IN  IF present = {}
            \* "No documents found in files directory"
            THEN /\ run' = Ran(kind, {}, {}, FALSE)
                 /\ UNCHANGED <<doc_cache, store_chunks>>
        ELSE
          LET use_cache == use_cache_arg /\ ~clear_existing
              cleared   == IF clear_existing THEN [f \in Files |-> NoEntry]
                           ELSE doc_cache
              count     == IF clear_existing THEN 0 ELSE store_chunks
              files_to_process ==
                  IF use_cache
                      THEN {f \in present : IsDocumentChanged(cleared[f], files[f])}
                      ELSE present
          IN  IF files_to_process = {}
                  \* "No files need processing (all cached)"
                  THEN /\ run' = Ran(kind, {}, {}, FALSE)
                       /\ doc_cache' = cleared
                       /\ store_chunks' = count
              ELSE
                \E failed_files \in SUBSET files_to_process, inserted \in BOOLEAN :
                  LET ok           == files_to_process \ failed_files
                      total_chunks == TotalChunks(ok)
                  IN  \* add_documents_batch runs when there are chunks, and can raise
                      /\ inserted => total_chunks > 0
                      /\ run' = Ran(kind, files_to_process, ok, inserted)
                      /\ store_chunks' = IF inserted THEN count + total_chunks ELSE count
                      /\ doc_cache' =
                            IF inserted /\ use_cache
                                THEN [f \in Files |->
                                        IF f \in ok
                                            THEN CacheEntry(files[f], ChunkCount(f))
                                            ELSE cleared[f]]
                                ELSE cleared

\* startup_event: the incremental run, then the watcher and the loop
Startup ==
    /\ loop_pc = "down"
    /\ process_documents("startup", FALSE, TRUE)
    /\ loop_pc' = "sleep"
    /\ UNCHANGED <<files, pending_reindex, events, covered>>
    /\ UNCHANGED not_index_vars

\* POST /documents/reindex.  The handler is a coroutine of the event loop that
\* runs check_reindex_pending: it gets the loop only where that task awaits,
\* in its sleep or inside its process_documents run, never between the test
\* of the flag and the start of the run.
reindex_documents ==
    /\ loop_pc \in {"sleep", "running"}
    /\ \E clear_cache \in BOOLEAN :
          IF clear_cache THEN process_documents("full", TRUE, FALSE)
          ELSE process_documents("incremental", FALSE, TRUE)
    /\ UNCHANGED <<files, pending_reindex, loop_pc, events, covered>>
    /\ UNCHANGED not_index_vars

\* a file is created or modified; the watcher thread runs on_created or
\* on_modified
FileEvent ==
    /\ loop_pc # "down"
    /\ events < MaxEvents
    /\ \E f \in Files, version \in Versions :
          files' = [files EXCEPT ![f] = version]
    /\ pending_reindex' = TRUE
    /\ events' = events + 1
    /\ UNCHANGED <<doc_cache, store_chunks, run, loop_pc, covered>>
    /\ UNCHANGED not_index_vars

\* "if file_handler and file_handler.pending_reindex"
TestPending ==
    /\ loop_pc = "sleep"
    /\ pending_reindex
    /\ loop_pc' = "clear"
    /\ UNCHANGED <<files, doc_cache, store_chunks, run, pending_reindex, events, covered>>
    /\ UNCHANGED not_index_vars

\* "file_handler.pending_reindex = False"
ClearPending ==
    /\ loop_pc = "clear"
    /\ pending_reindex' = FALSE
    /\ loop_pc' = "run"
    /\ UNCHANGED <<files, doc_cache, store_chunks, run, events, covered>>
    /\ UNCHANGED not_index_vars

\* "await process_documents()": the run starts
RunStart ==
    /\ loop_pc = "run"
    /\ process_documents("watch", FALSE, TRUE)
    /\ covered' = events
    /\ loop_pc' = "running"
    /\ UNCHANGED <<files, pending_reindex, events>>
    /\ UNCHANGED not_index_vars

\* the run returns and the loop sleeps again
RunEnd ==
    /\ loop_pc = "running"
    /\ pending_reindex' = FlagAfterRun(pending_reindex)
    /\ loop_pc' = "sleep"
    /\ UNCHANGED <<files, doc_cache, store_chunks, run, events, covered>>
    /\ UNCHANGED not_index_vars

IndexSpecInit ==
    NoRequest /\ RankIdle /\ NoCache /\ NoThreads /\ NoStore /\ NoServer /\ IndexInit

check_reindex_pending ==
    \/ TestPending
    \/ ClearPending
    \/ RunStart
    \/ RunEnd

IndexNext ==
    \/ Startup
    \/ reindex_documents
    \/ FileEvent
    \/ check_reindex_pending

IndexSpec == IndexSpecInit /\ [][IndexNext]_vars

\* the loop task is scheduled again and again
WatchSpec == IndexSpec /\ WF_vars(check_reindex_pending)

----------------------------------------------------------------------------
(* Properties of RAGService.get_response *)

C2_LowRelevanceResponse ==
    [][(/\ pc = "threshold"
        /\ reranked_metadata # <<>>
        /\ \A i \in 1..Len(reranked_metadata) :
              /\ reranked_metadata[i].scored
              /\ reranked_metadata[i].reranker_score < min_reranker_score) =>
            /\ pc' = "done"
            /\ result'.status = "returned"
            /\ result'.message = "low relevance"
            /\ result'.sources = <<>>
            /\ llm_calls' = llm_calls]_vars

C4_FatalErrorsNotRetried ==
    /\ [][(pc = "handle_error" /\ err \cap (QuotaWords \cup AuthWords) # {}) =>
            /\ pc' = "done"
            /\ result'.status = "raised"
            /\ \/ result'.message = "quota exceeded" /\ err \cap QuotaWords # {}
               \/ result'.message = "invalid api key" /\ err \cap AuthWords # {}
            /\ sleeps' = sleeps
            /\ attempt' = attempt
            /\ llm_calls' = llm_calls]_vars
    /\ [][pc # "done"]_vars

C4_Witness ==
    /\ pc = "done"
    /\ result.status = "raised"
    /\ result.message = "invalid api key"
    /\ attempt = 1
    /\ llm_calls = 2
    /\ sleeps = <<1>>

\* C5 (as claimed): when enhance_query raises, get_response does not fail but
\* goes on to retrieval with the raw query as its only variation.
C5_EnhancerFailureDegrades ==
    [][(pc = "enhance" /\ request.enhancer_raises) =>
            /\ pc' = "retrieve"
            /\ result'.status = "pending"]_vars

\* position of a stage in the order ENHANCING, RETRIEVING, PREFILTERING,
\* RERANKING, THRESHOLDING, CONTEXT_BUILDING and GENERATING (one step of the
\* model, with the handling of its failure), then the end of the request
StageRank(stage) ==
    CASE stage = "enhance" -> 1
      [] stage = "retrieve" -> 2
      [] stage = "prefilter" -> 3
      [] stage = "rerank" -> 4
      [] stage = "threshold" -> 5
      [] stage \in {"generate", "handle_error"} -> 6
      [] OTHER -> 7

\* C23: within one request the stages are entered in their order and no stage
\* is entered again once a later one has started: a retry after a failed LLM
\* attempt repeats the LLM call only, so the searches and the reranker run
\* once per request.
C23_StagesInOrder ==
    [][StageRank(pc') >= StageRank(pc)]_vars

\* C24: when the pre-filter leaves no candidate or fewer than
\* prefilter_min_docs, the reranker is given the unfiltered top candidates
\* instead, so for a non-empty deduplicated set of u candidates it is never
\* called with fewer than min(prefilter_min_docs, u).
C24_PrefilterNeverStarves ==
    pc = "rerank" =>
        /\ Len(SelectSeq(unique_docs, PassesPrefilter)) < prefilter_min_docs =>
              prefiltered_docs = Take(unique_docs, prefilter_fallback_docs)
        /\ Len(prefiltered_docs) >= Min(prefilter_min_docs, Len(unique_docs))

\* C25: with either reranker implementation the RERANKING and THRESHOLDING
\* stages complete without raising: reranking hands a list of the candidates
\* it was given to the threshold stage, at worst in their unranked order, and
\* thresholding goes on to the context and the LLM call (or returns the low
\* relevance response).
C25_RerankStagesNeverRaise ==
    [][/\ pc = "rerank" =>
             /\ pc' = "threshold"
             /\ err' = err
             /\ \A i \in 1..Len(reranked_metadata') :
                   \E j \in 1..Len(prefiltered_docs) :
                      reranked_metadata'[i].chunk = prefiltered_docs[j]
       /\ pc = "threshold" =>
             /\ pc' \in {"generate", "done"}
             /\ result'.status # "raised"]_vars

----------------------------------------------------------------------------
(* Properties of the ranking stages *)

RerankCalled == fn \in {"RerankerOptimized.rerank", "Reranker.rerank"}

\* C6: rerank never raises to its caller; with no model loaded, or when
\* scoring raises at inference time, it returns the input documents and
\* metadata in their original order, truncated to top_k, with nothing added.
C6_RerankFallsBack ==
    RerankCalled =>
        /\ ~ret.raised
        /\ (~args.model_loaded \/ ret.logged = "predict") =>
              /\ Len(ret.out) = Min(args.top_k, Len(args.documents))
              /\ \A i \in 1..Len(ret.out) :
                    /\ ret.out[i].chunk = args.documents[i]
                    /\ ~ret.out[i].scored

\* inference fails on three documents that scoring would have reordered
C6_Witness ==
    /\ fn = "RerankerOptimized.rerank"
    /\ args.model_loaded
    /\ ret.logged = "predict"
    /\ args.top_k = 2
    /\ Len(args.documents) = 3
    /\ args.documents[2].cross_encoder < args.documents[3].cross_encoder
    /\ ~ret.raised
    /\ Len(ret.out) = 2
    /\ ret.out[1].chunk = args.documents[1]
    /\ ret.out[2].chunk = args.documents[2]

NonIncreasing(s) == \A i \in 1..(Len(s) - 1) : s[i] >= s[i + 1]

\* C7: every ranked output is in non-increasing order of its score: the
\* bm25_score of search_sparse, the rrf_score of reciprocal_rank_fusion, the
\* reranker_score of rerank (0 where rerank added none) and the reranker_score
\* of the sources get_response returns.
C7_RankedOutputsDescend ==
    /\ fn = "search_sparse" =>
          NonIncreasing([i \in 1..Len(ret) |-> ret[i].bm25_score])
    /\ fn = "reciprocal_rank_fusion" =>
          NonIncreasing([i \in 1..Len(ret) |-> ret[i].rrf_score])
    /\ RerankCalled =>
          NonIncreasing([i \in 1..Len(ret.out) |-> RerankerScore(ret.out[i])])
    /\ fn = "get_response" =>
          NonIncreasing([i \in 1..Len(ret) |-> ret[i].reranker_score])

\* three documents returned with strictly decreasing scores, not in the
\* order they came in
C7_Witness ==
    /\ fn = "RerankerOptimized.rerank"
    /\ ret.logged = "none"
    /\ Len(ret.out) = 3
    /\ ret.out[1].reranker_score > ret.out[2].reranker_score
    /\ ret.out[2].reranker_score > ret.out[3].reranker_score
    /\ ret.out[2].original_rank > ret.out[3].original_rank

\* position of the text doc in a result list, 0 if it is not in it
RankIn(docs, doc) ==
    IF \E i \in 1..Len(docs) : docs[i].doc = doc
        THEN CHOOSE i \in 1..Len(docs) : docs[i].doc = doc
        ELSE 0

\* the chunks of the two lists have pairwise distinct 100-character prefixes
DistinctPrefixes(dense_docs, sparse_docs) ==
    /\ \A i, j \in 1..Len(dense_docs) :
          i # j => dense_docs[i].key # dense_docs[j].key
    /\ \A i, j \in 1..Len(sparse_docs) :
          i # j => sparse_docs[i].key # sparse_docs[j].key
    /\ \A i \in 1..Len(dense_docs), j \in 1..Len(sparse_docs) :
          dense_docs[i].key = sparse_docs[j].key => dense_docs[i].doc = sparse_docs[j].doc

\* sum of 1/(k + rank) over the lists that contain doc, in 1/RRFScale(k)
SumOfReciprocalRanks(doc, dense_docs, sparse_docs, k) ==
    LET d == RankIn(dense_docs, doc)
        s == RankIn(sparse_docs, doc)
    IN  (IF d > 0 THEN RRFScale(k) \div (k + d) ELSE 0)
          + (IF s > 0 THEN RRFScale(k) \div (k + s) ELSE 0)

\* C8: fusing result lists whose chunks have pairwise distinct prefixes gives
\* each chunk the sum of 1/(k + rank) over the lists containing it, ranks
\* counted from 1, and returns the n_results best of them, each once.  With
\* dense [A, B, C], sparse [B, A] and k = 60: A and B get 1/61 + 1/62, C 1/63.
C8_FusedScore ==
    (fn = "reciprocal_rank_fusion"
       /\ DistinctPrefixes(args.dense_docs, args.sparse_docs)) =>
        LET chunks == {c.doc : c \in Range(args.dense_docs) \cup Range(args.sparse_docs)}
        IN  /\ Len(ret) = Min(args.n_results, Cardinality(chunks))
            /\ \A i \in 1..Len(ret) :
                  /\ ret[i].doc \in chunks
                  /\ ret[i].rrf_score =
                        SumOfReciprocalRanks(ret[i].doc, args.dense_docs,
                                             args.sparse_docs, args.k)
                  /\ \A j \in 1..Len(ret) : ret[j].doc = ret[i].doc => j = i
            /\ ([i \in 1..Len(args.dense_docs) |-> args.dense_docs[i].doc] = <<"A", "B", "C">>
                  /\ [i \in 1..Len(args.sparse_docs) |-> args.sparse_docs[i].doc] = <<"B", "A">>
                  /\ args.k = 60 /\ args.n_results >= 3) =>
                  /\ Len(ret) = 3
                  /\ \A i \in 1..3 :
                        /\ ret[i].doc \in {"A", "B"} =>
                              ret[i].rrf_score = RRFScale(60) \div 61 + RRFScale(60) \div 62
                        /\ ret[i].doc = "C" =>
                              ret[i].rrf_score = RRFScale(60) \div 63

C8_Witness ==
    /\ fn = "reciprocal_rank_fusion"
    /\ args.k = 60
    /\ [i \in 1..Len(args.dense_docs) |-> args.dense_docs[i].doc] = <<"A", "B", "C">>
    /\ [i \in 1..Len(args.sparse_docs) |-> args.sparse_docs[i].doc] = <<"B", "A">>
    /\ [i \in 1..Len(ret) |-> ret[i].doc] = <<"A", "B", "C">>
    /\ ret[1].rrf_score = ret[2].rrf_score
    /\ ret[2].rrf_score > ret[3].rrf_score
    /\ ret[3].rrf_score > 0

\* the scores filter_by_confidence reads from the metadata
ScoresOf(metadata) == [i \in 1..Len(metadata) |-> RerankerScore(metadata[i])]

\* the larger of min_score and the 20th percentile of the scores, times Hundred
EffectiveThreshold(metadata, min_score100) ==
    Max(min_score100, ComputeDynamicThreshold(ScoresOf(metadata), 20))

\* 1-based index of the entry e in the list s
PositionIn(s, e) == CHOOSE i \in 1..Len(s) : s[i] = e

\* out holds entries of s in the order they have in s
KeepsOrder(out, s) ==
    /\ \A i \in 1..Len(out) : \E j \in 1..Len(s) : s[j] = out[i]
    /\ \A i, j \in 1..Len(out) :
          i < j => PositionIn(s, out[i]) < PositionIn(s, out[j])

\* C16: filter_by_confidence returns no candidate whose reranker_score is
\* below the larger of min_score and the 20th-percentile threshold of the
\* scores, and the candidates it keeps are in the order they had in the input.
C16_FilterAboveEffectiveThreshold ==
    fn = "filter_by_confidence" =>
        /\ \A i \in 1..Len(ret) :
              Hundred * RerankerScore(ret[i])
                  >= EffectiveThreshold(args.metadata, args.min_score100)
        /\ KeepsOrder(ret, args.metadata)

\* C17: search_sparse(query, k) returns at most k chunks, each with a
\* strictly positive BM25 score, so a chunk scoring zero (or less) is left out
\* even when that leaves fewer than k results; with no index built it returns
\* the empty list.
C17_SparsePositiveOnly ==
    fn = "search_sparse" =>
        /\ Len(ret) <= args.n_results
        /\ \A i \in 1..Len(ret) :
              /\ ret[i].bm25_score > 0
              /\ \E idx \in 1..Len(args.scores) :
                    /\ ret[i].doc = args.retriever.corpus_texts[idx]
                    /\ ret[i].bm25_score = args.scores[idx]
        /\ ~args.retriever.bm25_index => ret = <<>>

\* three chunks asked for, three indexed, one of them scores zero and one
\* below zero: one chunk comes back
C17_Witness ==
    /\ fn = "search_sparse"
    /\ args.n_results = 3
    /\ Len(args.scores) = 3
    /\ \E i, j \in 1..3 : args.scores[i] = 0 /\ args.scores[j] < 0
    /\ Len(ret) = 1

\* C18: compute_entity_overlap returns matches / total with
\* 0 <= matches <= total, total being the number of entities extracted from
\* the query and matches the number of them found in the text, hence a value
\* between 0 and 1; it returns 0.0 when the query yields no entity.
C18_OverlapInUnitInterval ==
    fn = "compute_entity_overlap" =>
        LET entities == Flatten(args.extracted)
            found    == {i \in 1..Len(entities) : entities[i] \in args.text.entities}
        IN  /\ ret.den > 0
            /\ 0 <= ret.num /\ ret.num <= ret.den
            /\ entities = <<>> => ret.num = 0
            /\ entities # <<>> =>
                  ret.num * Len(entities) = Cardinality(found) * ret.den

\* an entity extracted under two categories counts twice, and every entity of
\* the query is in the text: the overlap is 3/3
C18_Witness ==
    /\ fn = "compute_entity_overlap"
    /\ Len(args.extracted) = 2
    /\ ret.num = 3
    /\ ret.den = 3

\* C19: every candidate rerank returns carries reranker_score, original_rank
\* equal to its 1-based position in the input list and reranked_position equal
\* to its 1-based position in the output list; the original_rank values
\* returned are pairwise distinct.
C19_RankMetadataAttached ==
    RerankCalled =>
        /\ \A i \in 1..Len(ret.out) :
              /\ ret.out[i].scored
              /\ ret.out[i].original_rank \in 1..Len(args.documents)
              /\ args.documents[ret.out[i].original_rank] = ret.out[i].chunk
              /\ ret.out[i].reranked_position = i
        /\ \A i, j \in 1..Len(ret.out) :
              i # j => ret.out[i].original_rank # ret.out[j].original_rank

\* C26: rerank orders the candidates by descending final score, and of two
\* candidates with equal final score the one earlier in the input list comes
\* earlier in the output.
C26_TiesKeepInputOrder ==
    (RerankCalled /\ ret.logged = "none") =>
        \A i, j \in 1..Len(ret.out) :
            i < j =>
                \/ ret.out[i].reranker_score > ret.out[j].reranker_score
                \/ /\ ret.out[i].reranker_score = ret.out[j].reranker_score
                   /\ ret.out[i].original_rank < ret.out[j].original_rank

\* C27: with the exact-match boost enabled, the reranker_score of a returned
\* candidate is its cross-encoder score (camembert_score) plus
\* overlap * 2.0 + min(0.5 * number of exact matches, 3.0), a boost between 0
\* and 5.0; with the boost disabled it is the camembert_score.
C27_BoostFormula ==
    (fn = "RerankerOptimized.rerank" /\ ret.logged = "none") =>
        \A i \in 1..Len(ret.out) :
            LET m       == ret.out[i]
                total   == Len(args.query_entities)
                matches == Cardinality({k \in 1..total :
                                           args.query_entities[k] \in m.chunk.entities})
                boost   == m.reranker_score - m.camembert_score
            IN  /\ m.camembert_score = m.chunk.cross_encoder
                /\ ~args.boost => boost = 0
                /\ (args.boost /\ total = 0) => boost = 0
                /\ (args.boost /\ total > 0) =>
                      2 * total * boost
                          = 4 * matches * ScoreUnit
                              + total * Min(matches * ScoreUnit, 6 * ScoreUnit)
                /\ 0 <= boost /\ boost <= 5 * ScoreUnit

\* three candidates: every query entity is in one of them and more than six
\* match, which gives it the largest boost, 5.0; another holds half of the
\* entities and gets 3.0; the third holds none
C27_Witness ==
    /\ fn = "RerankerOptimized.rerank"
    /\ ret.logged = "none"
    /\ args.boost
    /\ Len(ret.out) = 3
    /\ \E i, j, k \in 1..3 :
          /\ ret.out[i].reranker_score = ret.out[i].camembert_score + 5 * ScoreUnit
          /\ ret.out[j].reranker_score = ret.out[j].camembert_score + 3 * ScoreUnit
          /\ ret.out[k].reranker_score = ret.out[k].camembert_score

----------------------------------------------------------------------------
(* Properties of the caches *)

\* the key the cache computes for the parameters of a call
CacheKey(p) ==
    IF cache_class = "QueryCache" THEN QueryCache_compute_key(p)
    ELSE EmbeddingCache_compute_key(p)

\* C9: in either cache, a get that is the next call after put(params, value),
\* with the same parameters and before the entry's TTL has run out, returns
\* that value.
C9_PutThenGet ==
    [][(/\ last_call.op = "put"
        /\ last_call'.op = "get"
        /\ last_call'.params = last_call.params
        /\ cache_class = "QueryCache" =>
              now - timestamps[CacheKey(last_call.params)] <= ttl_seconds) =>
            last_call'.value = last_call.value]_vars

\* a QueryCache of max_size 1 whose only get was a hit returning r2, one
\* second (the whole TTL) after the put: with room for one entry, the call
\* before that get was the put of this key with r2
C9_Witness ==
    /\ cache_class = "QueryCache"
    /\ max_size = 1
    /\ last_call.op = "get"
    /\ last_call.value = "r2"
    /\ hits = 1
    /\ misses = 0
    /\ Len(cache) = 1
    /\ cache[1].key = CacheKey(last_call.params)
    /\ now - timestamps[cache[1].key] = ttl_seconds

\* C10 (as claimed): a put of a key not yet cached into a full cache evicts
\* exactly one entry, the least recently used one (a put or a successful get
\* of a key is a use of it), and leaves every other entry as it was.
C10_EvictsLeastRecentlyUsed ==
    [][(/\ last_call'.op = "put"
        /\ ~Contains(cache, CacheKey(last_call'.params))
        /\ Len(cache) = max_size) =>
            /\ Keys(cache') =
                  (Keys(cache) \ {uses[1]}) \cup {CacheKey(last_call'.params)}
            /\ \A k \in Keys(cache) \ {uses[1]} : Lookup(cache', k) = Lookup(cache, k)
            /\ Lookup(cache', CacheKey(last_call'.params)) = last_call'.value]_vars

\* C29: a put on a key that is already cached replaces its value and leaves
\* every other entry in place: the size of the cache is unchanged and no
\* other key is evicted, also when the cache holds max_size entries.
C29_PutOnCachedKeyKeepsOthers ==
    [][(/\ last_call'.op = "put"
        /\ Contains(cache, CacheKey(last_call'.params))) =>
            /\ Len(cache') = Len(cache)
            /\ Keys(cache') = Keys(cache)
            /\ Lookup(cache', CacheKey(last_call'.params)) = last_call'.value
            /\ \A k \in Keys(cache) \ {CacheKey(last_call'.params)} :
                  Lookup(cache', k) = Lookup(cache, k)]_vars

\* C11: whatever get, put and clear calls were made on a cache built with
\* max_size >= 1, it never holds more than max_size entries (and never two
\* entries under one key).
C11_BoundedSize ==
    (cache_class # "" /\ max_size >= 1) =>
        /\ Len(cache) <= max_size
        /\ Cardinality(Keys(cache)) = Len(cache)

\* a cache of the largest size, full after a put, that has served a hit and
\* a miss
C11_Witness ==
    /\ cache_class = "EmbeddingCache"
    /\ max_size = MaxSize
    /\ Len(cache) = max_size
    /\ last_call.op = "put"
    /\ cache[Len(cache)].key = CacheKey(last_call.params)
    /\ hits >= 1
    /\ misses >= 1

\* C12: QueryCache.get returns an entry only while the time since its most
\* recent put is at most ttl_seconds: only a put stamps an entry, with the
\* time of the put, and a get leaves the stamps of the entries it keeps as
\* they are.  A get that finds its entry older than that removes it from the
\* cache and from the timestamps, counts a miss and returns None.
C12_AbsoluteExpiry ==
    /\ [][(cache_class = "QueryCache" /\ last_call'.op = "get"
             /\ hits' + misses' = hits + misses + 1) =>
            LET key == CacheKey(last_call'.params)
            IN  /\ \A k \in DOMAIN timestamps' :
                      k \in DOMAIN timestamps /\ timestamps'[k] = timestamps[k]
                /\ last_call'.value # None =>
                      /\ Contains(cache, key)
                      /\ now - timestamps[key] <= ttl_seconds
                      /\ last_call'.value = Lookup(cache, key)
                /\ (Contains(cache, key) /\ now - timestamps[key] > ttl_seconds) =>
                      /\ last_call'.value = None
                      /\ ~Contains(cache', key)
                      /\ key \notin DOMAIN timestamps'
                      /\ misses' = misses + 1
                      /\ hits' = hits]_vars
    /\ [][(cache_class = "QueryCache" /\ last_call'.op = "put"
             /\ timestamps' # timestamps) =>
            /\ timestamps'[CacheKey(last_call'.params)] = now
            /\ \A k \in DOMAIN timestamps' \ {CacheKey(last_call'.params)} :
                  k \in DOMAIN timestamps /\ timestamps'[k] = timestamps[k]]_vars

\* the cache's only miss is the last call, a get that emptied the cache after
\* an earlier get had hit: the entry had outlived its TTL and was removed
C12_Witness ==
    /\ cache_class = "QueryCache"
    /\ last_call.op = "get"
    /\ last_call.value = None
    /\ hits = 1
    /\ misses = 1
    /\ cache = <<>>
    /\ DOMAIN timestamps = {}
    /\ now > ttl_seconds

\* C13: with several threads calling one cache, a thread is inside the body
\* of a call only while it holds the lock, so the bodies run one at a time;
\* the cache never holds more than max_size entries, and whenever no call is
\* running, the cache and the timestamps of a QueryCache have the same keys.
C13_AtomicUnderLock ==
    cache_class # "" =>
        /\ \A t \in Threads : thread_pc[t] # "idle" => lock = t
        /\ Len(cache) <= max_size
        /\ Cardinality(Keys(cache)) = Len(cache)
        /\ lock = NoThread =>
              /\ \A t \in Threads : thread_pc[t] = "idle"
              /\ cache_class = "QueryCache" => Keys(cache) = DOMAIN timestamps

\* thread 2 is in a put that evicted the oldest entry of a full QueryCache
\* and has stored its own, not yet stamped; thread 1 is kept out
C13_Witness ==
    /\ cache_class = "QueryCache"
    /\ lock = 2
    /\ thread_pc[2] = "stamp"
    /\ thread_pc[1] = "idle"
    /\ oldest_key[2] # <<>>
    /\ Len(cache) = max_size
    /\ Keys(cache) # DOMAIN timestamps
    /\ hits >= 1

----------------------------------------------------------------------------
(* Properties of the API layer *)

\* a non-empty key has been stored through POST /settings
KeyStored == settings_doc.exists /\ ~Falsy(settings_doc.cerebras_api_key)

\* C20: once a non-empty API key has been stored through POST /settings,
\* every later POST /chat with a valid non-empty message finds the key
\* configured and goes on to the RAG service; it is not rejected with the
\* "API key not configured" error.
C20_ChatFindsStoredKey ==
    (/\ http.op = "chat"
     /\ KeyStored
     /\ ~http.body.message.blank
     /\ http.body.message.length \in 1..max_message_length) =>
        /\ http.rag_called
        /\ http.detail # "API key not configured"

----------------------------------------------------------------------------
(* Properties of indexing *)

\* the files of the directory
Present == {f \in Files : files[f] # 0}

\* the document cache holds an entry with the hash and size f has now
Matching(entries, f) ==
    /\ entries[f].cached
    /\ entries[f].file_hash = FileHash(files[f])
    /\ entries[f].file_size = FileSize(files[f])

\* this step is a process_documents run that uses the cache
IncrementalRun ==
    /\ run'.tick # run.tick
    /\ run'.kind \in {"startup", "incremental", "watch"}

C22_CacheCountsStoreChunks ==
    (loop_pc # "running" /\ events = 0) =>
        CachedChunks(doc_cache, Files) = store_chunks

\* C30: under fair scheduling of the watcher and of the loop, every file
\* event is eventually followed by a process_documents run that starts after
\* it: the n-th event leads to a run started when at least n events had
\* been delivered.
C30_NoEventLost ==
    \A n \in 1..MaxEvents : (events >= n) ~> (covered >= n)

\* an event arrived while a run was under way, after the flag was cleared,
\* and the next cycle started a run for it
C30_Witness ==
    /\ events = MaxEvents
    /\ covered = MaxEvents
    /\ loop_pc = "running"
    /\ run.kind = "watch"
    /\ run.processed # {}
    /\ store_chunks > TotalChunks(Files)

----------------------------------------------------------------------------
(* Properties of VectorStoreService *)

\* C28: every index_documents call of the service passes the whole current
\* corpus, so after any sequence of add_documents and clear_collection calls
\* the texts in the BM25 index are the texts stored in the collection.
C28_Bm25IndexIsCollection ==
    /\ Range(hybrid_retriever.corpus_texts) = Range(collection)
    /\ hybrid_retriever.bm25_index <=> collection # <<>>

\* C14 (as claimed): when clear_collection or add_documents has completed,
\* the embedding cache and the query cache of the service are both empty.
C14_ReindexClearsCaches ==
    store_call.op \in {"clear_collection", "add_documents"} =>
        /\ cache = <<>>
        /\ emb_cache = <<>>

\* the service has served no search since its caches were last emptied by
\* clear_caches (or built), and its collection has just been filled
FirstSearchAfterReindex ==
    /\ store_call.op = "add_documents"
    /\ collection # <<>>
    /\ cache = <<>>
    /\ emb_cache = <<>>
    /\ hits + misses = 0

SearchStep == store_call'.op = "search" /\ hits' + misses' = hits + misses + 1

====
